---------------------------- MODULE Spec2Model ----------------------------
(***************************************************************************)
(* Model of the generic collectives of MTCL                                *)
(* (include/collectives/collectiveImpl.hpp): the framing helper            *)
(* (probeHandle / receiveFromHandle), the partition arithmetic and the     *)
(* Broadcast, Scatter, Gather, AllGather, AllToAll and FanIn strategies.   *)
(*                                                                         *)
(* A Handle (include/handle.hpp, not part of the sources at hand) is       *)
(* modelled from its contract: a message-oriented channel whose incoming   *)
(* side is a queue of frames; a frame is its payload, a sequence of bytes;  *)
(* the end-of-stream frame is the frame of length 0.                       *)
(***************************************************************************)
EXTENDS Integers, Sequences, FiniteSets, TLC

VARIABLES
    cfg,    \* the arguments of the scenario: group size, datasize, sizes
    hm,     \* handle id -> the Handle's state
    parts,  \* participant -> its `participants` vector (handle ids)
    pc,     \* participant -> its position in its program
    mem,    \* participant -> its buffers and the values its calls returned
    obs     \* what the last call observed: operation, arguments, result

vars == <<cfg, hm, parts, pc, mem, obs>>

---------------------------------------------------------------------------
(* Bounds of the model *)

PartMaxN == 4      \* SpecPart: largest group size
PartMaxDS == 3     \* SpecPart: largest datasize
PartMaxCount == 8  \* SpecPart: largest number of elements
FrMaxSends == 3    \* SpecFraming: messages the peer sends
MaxN == 3          \* largest group size of a collective
MaxCount == 4      \* largest number of elements of a collective's buffer
MaxDS == 2         \* largest datasize of a collective
MaxMsg == 2        \* largest payload of a streamed message
A2ASlack == 1      \* SpecA2A: bytes a recvbuf may have beyond its need
MaxBcasts == 2     \* SpecBroadcast: buffers the root broadcasts
InvMaxN == 2       \* SpecInvalid: group size
InvMaxDS == 2      \* SpecInvalid: datasize
InvMaxCount == 3   \* SpecInvalid: elements of the buffer

(* Program constants *)

HdrSize == 8     \* sizeof(size_t): the "header read" indicator of a probe

Junk == 0 - 1    \* the content of a buffer position nobody has written

Min(a, b) == IF a < b THEN a ELSE b

---------------------------------------------------------------------------
(* Partition arithmetic, as each strategy computes it *)

\* ScatterGeneric::sendrecv, root: selfsendcount, then the loop over the
\* peers, each taking one extra element while rcount > 0 (rcount--).
\* The result is the sequence of shares, root first.
RECURSIVE ScatterLoop(_, _, _, _, _)
ScatterLoop(i, npeers, sendcount, rcount, datasize) ==
    IF i >= npeers THEN <<>>
    ELSE LET chunksize == IF rcount > 0 THEN sendcount + datasize ELSE sendcount
             rc2 == IF rcount > 0 THEN rcount - 1 ELSE rcount
         IN  <<chunksize>> \o ScatterLoop(i + 1, npeers, sendcount, rc2, datasize)

ScatterSelfCount(sendsize, datasize, n) ==
    LET datacount == sendsize \div datasize
        sendcount == (datacount \div n) * datasize
        rcount == datacount % n
    IN  IF rcount > 0 THEN sendcount + datasize ELSE sendcount

ScatterShares(sendsize, datasize, n) ==
    LET datacount == sendsize \div datasize
        sendcount == (datacount \div n) * datasize
        rcount == datacount % n
        rc1 == IF rcount > 0 THEN rcount - 1 ELSE rcount
    IN  <<ScatterSelfCount(sendsize, datasize, n)>>
            \o ScatterLoop(0, n - 1, sendcount, rc1, datasize)

\* GatherGeneric / AllGatherGeneric::sendrecv, root: its own share
GatherSelfCount(recvsize, datasize, n) ==
    LET datacount == recvsize \div datasize
        recvcount == (datacount \div n) * datasize
        rcount == datacount % n
    IN  IF rcount > 0 THEN recvcount + datasize ELSE recvcount

\* ... and the share it expects from participants.at(i): rcount && (i+1) < rcount
GatherRootChunkOff(i, recvsize, datasize, n) ==
    LET datacount == recvsize \div datasize
        recvcount == (datacount \div n) * datasize
        rcount == datacount % n
    IN  IF rcount # 0 /\ (i + 1) <= rcount THEN recvcount + datasize ELSE recvcount

GatherRootChunk(i, recvsize, datasize, n) ==
    LET datacount == recvsize \div datasize
        recvcount == (datacount \div n) * datasize
        rcount == datacount % n
    IN  IF rcount # 0 /\ (i + 1) < rcount THEN recvcount + datasize ELSE recvcount

\* GatherGeneric / AllGatherGeneric::sendrecv, non-root: rcount && rank < rcount
GatherPeerChunk(rank, recvsize, datasize, n) ==
    LET datacount == recvsize \div datasize
        recvcount == (datacount \div n) * datasize
        rcount == datacount % n
    IN  IF rcount # 0 /\ rank < rcount THEN recvcount + datasize ELSE recvcount

\* AlltoallGeneric::sendrecv, root: the loop over the destinations i = 0..n-1
AlltoallShares(sendsize, datasize, n) ==
    LET datacount == sendsize \div datasize
        sendcount == (datacount \div n) * datasize
        rcount == datacount % n
    IN  ScatterLoop(0, n, sendcount, rcount, datasize)

\* AlltoallGeneric::sendrecv: selfrecvcount
AlltoallSelfRecvCount(rank, sendsize, datasize, n) ==
    LET datacount == sendsize \div datasize
        sendcount == (datacount \div n) * datasize
        rcount == datacount % n
    IN  (sendcount + (IF rcount # 0 /\ rank < rcount THEN datasize ELSE 0)) * n

\* CollectiveImpl::getTeamPartitionSize (in elements)
getTeamPartitionSize(buffcount, n, rank) ==
    LET partition == buffcount \div n
        r == buffcount % n
    IN  IF r # 0 /\ rank < r THEN partition + 1 ELSE partition

---------------------------------------------------------------------------
(* The partition of the specification (section 4.2), which the claims    *)
(* compare the code with                                                  *)

Chunk(r, total, datasize, n) ==
    LET count == total \div datasize
        base == (count \div n) * datasize
        remainder == count % n
    IN  base + (IF r < remainder THEN datasize ELSE 0)

RECURSIVE SumSeq(_)
SumSeq(s) == IF s = <<>> THEN 0 ELSE Head(s) + SumSeq(Tail(s))

\* displacement of rank r in the packed buffer
Displ(r, total, datasize, n) ==
    SumSeq([j \in 1..r |-> Chunk(j - 1, total, datasize, n)])

---------------------------------------------------------------------------
(* The Handle (modelled from its contract, section 6 of the specification) *)
(*                                                                         *)
(* A handle id is <<g, a, b>>: in team g, the end at participant a of the  *)
(* channel between a and b.  Its state:                                    *)
(*   probed, psize       the `probed` pair set by the framing helper       *)
(*   closed_rd, closed_wr the half-close flags                             *)
(*   q                   the frames sent by the other end, not yet read    *)
(*   hdr                 the header of the frame at the front of q has     *)
(*                       been consumed by a probe, its payload has not     *)
(*   cond                the state of the connection for a read that finds *)
(*                       q empty: "ok", "eof" (the peer's end is gone:     *)
(*                       probe returns 0), "reset" (probe fails with       *)
(*                       ECONNRESET), "fail" (probe fails with EIO)        *)
(*   wfail               the transport fails to write: send returns -1     *)

Hid(g, a, b) == <<g, a, b>>
Opp(x) == <<x[1], x[3], x[2]>>

NewHandle ==
    [probed |-> FALSE, psize |-> 0, closed_rd |-> FALSE, closed_wr |-> FALSE,
     q |-> << >>, hdr |-> FALSE, cond |-> "ok", wfail |-> FALSE]

\* The result of a call that cannot complete yet: the caller stays blocked.
Blocked == [blk |-> TRUE]

\* Handle::probe(size, blocking).  > 0: a header was consumed and size is the
\* payload length (a frame of length 0 is all header); 0: end of stream;
\* -1: error, size untouched.  A probe while the payload of the last header
\* is still unread is outside the contract: what it takes for a header is
\* not one, and `junk` is the size it makes of it.
HProbe(m, x, blocking, size0, junk) ==
    LET hx == m[x] IN
    IF hx.q # << >> THEN
        IF hx.hdr THEN
            [blk |-> FALSE, r |-> HdrSize, size |-> junk, errno |-> "",
             hm |-> m, undef |-> TRUE]
        ELSE IF Len(Head(hx.q)) = 0 THEN
            [blk |-> FALSE, r |-> HdrSize, size |-> 0, errno |-> "",
             hm |-> [m EXCEPT ![x].q = Tail(@)], undef |-> FALSE]
        ELSE
            [blk |-> FALSE, r |-> HdrSize, size |-> Len(Head(hx.q)), errno |-> "",
             hm |-> [m EXCEPT ![x].hdr = TRUE], undef |-> FALSE]
    ELSE IF hx.cond = "eof" THEN
        [blk |-> FALSE, r |-> 0, size |-> size0, errno |-> "", hm |-> m,
         undef |-> FALSE]
    ELSE IF hx.cond = "reset" THEN
        [blk |-> FALSE, r |-> -1, size |-> size0, errno |-> "ECONNRESET",
         hm |-> m, undef |-> FALSE]
    ELSE IF hx.cond = "fail" THEN
        [blk |-> FALSE, r |-> -1, size |-> size0, errno |-> "EIO", hm |-> m,
         undef |-> FALSE]
    ELSE IF blocking THEN Blocked
    ELSE [blk |-> FALSE, r |-> -1, size |-> size0, errno |-> "EWOULDBLOCK",
          hm |-> m, undef |-> FALSE]

\* Handle::receive(buf, cap): up to cap bytes of the probed payload.
HReceive(m, x, cap) ==
    LET f == Head(m[x].q)
        k == Min(cap, Len(f))
    IN  IF k = Len(f)
        THEN [r |-> k, data |-> f,
              hm |-> [m EXCEPT ![x].q = Tail(@), ![x].hdr = FALSE]]
        ELSE [r |-> k, data |-> SubSeq(f, 1, k),
              hm |-> [m EXCEPT ![x].q = <<SubSeq(f, k + 1, Len(f))>> \o Tail(@)]]

\* Handle::send(buf, size): one frame, delivered to the other end; -1 and
\* nothing delivered when the transport fails to write (wfail).
HSend(m, x, data) ==
    IF m[x].wfail THEN [r |-> -1, hm |-> m]
    ELSE [r |-> Len(data), hm |-> [m EXCEPT ![Opp(x)].q = Append(@, data)]]

\* Handle::close(close_wr, close_rd): half-closes, idempotently; closing the
\* write side sends the end-of-stream frame.
HClose(m, x, wr, rd) ==
    LET m1 == IF wr /\ ~m[x].closed_wr
              THEN [m EXCEPT ![x].closed_wr = TRUE, ![Opp(x)].q = Append(@, << >>)]
              ELSE m
    IN  IF rd THEN [m1 EXCEPT ![x].closed_rd = TRUE] ELSE m1

---------------------------------------------------------------------------
(* The framing helper *)

\* a result of the helper that touched nothing
HelperResult(m, r, size, e, io) ==
    [blk |-> FALSE, r |-> r, size |-> size, errno |-> e, hm |-> m, io |-> io]

\* CollectiveImpl::probeHandle, after the call of realHandle->probe: p is
\* what the transport's probe returned.
ProbeOutcomeResetNotClosed(m, x, p) ==
    IF p.blk THEN Blocked
    ELSE IF p.r <= 0 THEN
        IF p.r = 0 THEN
            HelperResult(HClose(p.hm, x, TRUE, TRUE), 0, p.size, p.errno, 1)
        ELSE IF p.errno = "ECONNRESET" THEN
            HelperResult(p.hm, 0, p.size, p.errno, 1)
        ELSE HelperResult(p.hm, -1, p.size, p.errno, 1)
    ELSE IF p.size = 0 THEN
        HelperResult(HClose([p.hm EXCEPT ![x].probed = TRUE, ![x].psize = p.size],
                            x, FALSE, TRUE), 0, 0, "", 1)
    ELSE
        HelperResult([p.hm EXCEPT ![x].probed = TRUE, ![x].psize = p.size],
                     p.r, p.size, "", 1)

ProbeOutcomeWouldBlockCached(m, x, p) ==
    IF p.blk THEN Blocked
    ELSE IF p.r <= 0 THEN
        IF p.r = 0 THEN
            HelperResult(HClose(p.hm, x, TRUE, TRUE), 0, p.size, p.errno, 1)
        ELSE IF p.errno = "ECONNRESET" THEN
            HelperResult(HClose(p.hm, x, TRUE, TRUE), 0, p.size, p.errno, 1)
        ELSE IF p.errno \in {"EWOULDBLOCK", "EAGAIN"} THEN
            HelperResult([p.hm EXCEPT ![x].probed = TRUE, ![x].psize = p.size], -1,
                         p.size, "EWOULDBLOCK", 1)
        ELSE HelperResult(p.hm, p.r, p.size, p.errno, 1)
    ELSE IF p.size = 0 THEN
        HelperResult(HClose([p.hm EXCEPT ![x].probed = TRUE, ![x].psize = p.size],
                            x, FALSE, TRUE), 0, 0, "", 1)
    ELSE
        HelperResult([p.hm EXCEPT ![x].probed = TRUE, ![x].psize = p.size],
                     p.r, p.size, "", 1)

ProbeOutcome(m, x, p) ==
    IF p.blk THEN Blocked
    ELSE IF p.r <= 0 THEN
        IF p.r = 0 THEN
            \* case 0: close(true, true), return 0
            HelperResult(HClose(p.hm, x, TRUE, TRUE), 0, p.size, p.errno, 1)
        ELSE IF p.errno = "ECONNRESET" THEN
            HelperResult(HClose(p.hm, x, TRUE, TRUE), 0, p.size, p.errno, 1)
        ELSE IF p.errno \in {"EWOULDBLOCK", "EAGAIN"} THEN
            HelperResult(p.hm, -1, p.size, "EWOULDBLOCK", 1)
        ELSE HelperResult(p.hm, p.r, p.size, p.errno, 1)
    ELSE IF p.size = 0 THEN
        \* probed = {true, 0}; EOS received: close(false, true), return 0
        HelperResult(HClose([p.hm EXCEPT ![x].probed = TRUE, ![x].psize = p.size],
                            x, FALSE, TRUE), 0, 0, "", 1)
    ELSE
        HelperResult([p.hm EXCEPT ![x].probed = TRUE, ![x].psize = p.size],
                     p.r, p.size, "", 1)

\* CollectiveImpl::probeHandle(realHandle, size, blocking).  io counts the
\* calls of the transport's probe.  The helper reaches the transport only
\* when nothing is cached, and it caches every header it consumes, so the
\* transport is never probed with a payload pending and the `junk` argument
\* of HProbe has no effect here.
probeHandleNoCache(m, x, blocking, size0) ==
    IF m[x].closed_rd THEN HelperResult(m, 0, size0, "", 0)
    ELSE ProbeOutcome(m, x, HProbe(m, x, blocking, size0, 0))

probeHandle(m, x, blocking, size0) ==
    IF m[x].probed THEN
        \* previously probed: the cached size, 0 if it was the end of stream
        HelperResult(m, IF m[x].psize # 0 THEN HdrSize ELSE 0, m[x].psize, "", 0)
    ELSE IF m[x].closed_rd THEN HelperResult(m, 0, size0, "", 0)
    ELSE ProbeOutcome(m, x, HProbe(m, x, blocking, size0, 0))

\* a result of receiveFromHandle: data is what was written to buff
RecvResult(m, r, data, e, io) ==
    [blk |-> FALSE, r |-> r, data |-> data, errno |-> e, hm |-> m, io |-> io]

\* realHandle->probed = {false, 0}; return realHandle->receive(buff, min(sz, size))
ReceivedPayload(rc, io) == RecvResult(rc.hm, rc.r, rc.data, "", io + 1)

ReceivePayload(m, x, len, io) ==
    ReceivedPayload(HReceive([m EXCEPT ![x].probed = FALSE, ![x].psize = 0], x, len),
                    io)

\* CollectiveImpl::receiveFromHandle, from the test of the size on: m is the
\* handles with the size probed
ReceiveSizedClearFirst(m, x, cap, io) ==
    IF m[x].psize > cap
    THEN RecvResult([m EXCEPT ![x].probed = FALSE, ![x].psize = 0], -1, << >>,
                    "ENOMEM", io)
    ELSE ReceivePayload(m, x, Min(m[x].psize, cap), io)

ReceiveSized(m, x, cap, io) ==
    IF m[x].psize > cap
    THEN RecvResult(m, -1, << >>, "ENOMEM", io)
    ELSE ReceivePayload(m, x, Min(m[x].psize, cap), io)

\* CollectiveImpl::receiveFromHandle, not yet probed: pr is the result of
\* probeHandle(realHandle, sz, true)
ReceiveAfterProbe(x, cap, pr) ==
    IF pr.blk THEN Blocked
    ELSE IF pr.r <= 0 THEN RecvResult(pr.hm, pr.r, << >>, pr.errno, pr.io)
    ELSE ReceiveSized(pr.hm, x, cap, pr.io)

\* CollectiveImpl::receiveFromHandle(realHandle, buff, size): cap is the size
\* of the caller's buffer.  io counts the calls of the transport's probe and
\* receive.
receiveFromHandle(m, x, cap) ==
    IF ~m[x].probed THEN ReceiveAfterProbe(x, cap, probeHandle(m, x, TRUE, 0))
    ELSE IF m[x].closed_rd THEN RecvResult(m, 0, << >>, "", 0)
    ELSE ReceiveSized(m, x, cap, 0)

---------------------------------------------------------------------------
(* Buffers.  A buffer is the sequence of its bytes; Null is the null       *)
(* pointer.  memcpy(dst + off, src, Len(data)) is Put.                     *)

Null == <<Junk - 1>>

Fresh(size) == [i \in 1..size |-> Junk]

Put(buf, off, data) ==
    [i \in 1..Len(buf) |->
        IF off < i /\ i <= off + Len(data) THEN data[i - off] ELSE buf[i]]

Slice(buf, off, len) == SubSeq(buf, off + 1, off + len)

\* The `participants` vector a strategy is constructed with: the root owns
\* one handle per peer, in rank order; a non-root owns its handle to the root.
Participants(g, p, n) ==
    IF p = 0 THEN [i \in 1..n - 1 |-> Hid(g, 0, i)] ELSE <<Hid(g, p, 0)>>

\* the result of a sendrecv
CallResult(m, r, e, recvbuf) ==
    [blk |-> FALSE, r |-> r, errno |-> e, recvbuf |-> recvbuf, hm |-> m]

\* a call that returns -1 before any I/O
Rejected(m, recvbuf, e) == CallResult(m, -1, e, recvbuf)

\* for (auto& h : participants) if (h->send(buf, size) < 0) fail.
\* ok tells whether every send succeeded.
RECURSIVE SendAll(_, _, _, _)
SendAllNextKeepGoing(ps, i, data, sd) ==
    IF sd.r < 0 THEN [ok |-> FALSE, hm |-> SendAll(sd.hm, ps, i + 1, data).hm]
    ELSE SendAll(sd.hm, ps, i + 1, data)

SendAllNext(ps, i, data, sd) ==
    IF sd.r < 0 THEN [ok |-> FALSE, hm |-> sd.hm]
    ELSE SendAll(sd.hm, ps, i + 1, data)

SendAll(m, ps, i, data) ==
    IF i > Len(ps) THEN [ok |-> TRUE, hm |-> m]
    ELSE SendAllNext(ps, i, data, HSend(m, ps[i], data))

\* the non-root of Broadcast and Scatter, after
\* res = receiveFromHandle(h, recvbuff, recvsize):
\* if (res == 0) h->close(true, false); return res
RecvOrClose(h, recvbuf, res) ==
    IF res.blk THEN Blocked
    ELSE CallResult(IF res.r = 0 THEN HClose(res.hm, h, TRUE, FALSE) ELSE res.hm,
                    res.r, res.errno, Put(recvbuf, 0, res.data))

---------------------------------------------------------------------------
(* Broadcast *)

\* BroadcastGeneric::sendrecv, root, after the loop of sends
BroadcastSent(sendbuf, sendsize, recvbuf, sa) ==
    IF ~sa.ok THEN CallResult(sa.hm, -1, "ECONNRESET", recvbuf)
    ELSE CallResult(sa.hm, sendsize, "",
                    IF recvbuf = Null THEN recvbuf
                    ELSE Put(recvbuf, 0, Slice(sendbuf, 0, sendsize)))

\* BroadcastGeneric::sendrecv
BroadcastSendrecv(m, ps, root, sendbuf, sendsize, recvbuf, recvsize) ==
    IF root THEN
        BroadcastSent(sendbuf, sendsize, recvbuf,
                      SendAll(m, ps, 1, Slice(sendbuf, 0, sendsize)))
    ELSE RecvOrClose(ps[1], recvbuf, receiveFromHandle(m, ps[1], recvsize))

---------------------------------------------------------------------------
(* Scatter *)

\* sendbuff = (char*)sendbuff + chunksize
ScatterAdvance(off, chunksize) == off + chunksize

\* ScatterGeneric::sendrecv, root: the loop over participants.at(i);
\* shares[i + 2] is the chunksize of iteration i, off the running pointer
RECURSIVE ScatterSendLoop(_, _, _, _, _, _)
ScatterSendNext(ps, i, shares, sendbuf, off, sd) ==
    IF sd.r < 0 THEN [ok |-> FALSE, hm |-> sd.hm]
    ELSE ScatterSendLoop(sd.hm, ps, i + 1, shares, sendbuf,
                         ScatterAdvance(off, shares[i + 2]))

ScatterSendLoop(m, ps, i, shares, sendbuf, off) ==
    IF i >= Len(shares) - 1 THEN [ok |-> TRUE, hm |-> m]
    ELSE ScatterSendNext(ps, i, shares, sendbuf, off,
                         HSend(m, ps[i + 1], Slice(sendbuf, off, shares[i + 2])))

\* ScatterGeneric::sendrecv, root, after the loop of sends
ScatterSent(sendbuf, selfsendcount, recvbuf, sl) ==
    CallResult(sl.hm, IF sl.ok THEN selfsendcount ELSE -1,
               IF sl.ok THEN "" ELSE "ECONNRESET",
               Put(recvbuf, 0, Slice(sendbuf, 0, selfsendcount)))

\* ScatterGeneric::sendrecv, root, the sizes checked: shares computed
ScatterRootSendFirst(m, ps, shares, sendbuf, recvbuf, recvsize) ==
    IF recvsize < shares[1]
    THEN Rejected(ScatterSendLoop(m, ps, 0, shares, sendbuf, shares[1]).hm, recvbuf,
                  "EINVAL")
    ELSE ScatterSent(sendbuf, shares[1], recvbuf,
                     ScatterSendLoop(m, ps, 0, shares, sendbuf, shares[1]))

ScatterRoot(m, ps, shares, sendbuf, recvbuf, recvsize) ==
    IF recvsize < shares[1] THEN Rejected(m, recvbuf, "EINVAL")
    ELSE ScatterSent(sendbuf, shares[1], recvbuf,
                     ScatterSendLoop(m, ps, 0, shares, sendbuf, shares[1]))

\* ScatterGeneric::sendrecv
ScatterSendrecv(m, ps, n, root, sendbuf, sendsize, recvbuf, recvsize, datasize) ==
    IF recvbuf = Null THEN Rejected(m, recvbuf, "EFAULT")
    ELSE IF root THEN
        IF sendbuf = Null THEN Rejected(m, recvbuf, "EFAULT")
        ELSE IF sendsize % datasize # 0 THEN Rejected(m, recvbuf, "EINVAL")
        ELSE ScatterRoot(m, ps, ScatterShares(sendsize, datasize, n), sendbuf,
                         recvbuf, recvsize)
    ELSE RecvOrClose(ps[1], recvbuf, receiveFromHandle(m, ps[1], recvsize))

---------------------------------------------------------------------------
(* A sendrecv that waits in receiveFromHandle after it has sent, copied or *)
(* received something has not returned, and what it did is done: the call  *)
(* is several steps.  A non-root of AllGather and AllToAll sends and then  *)
(* waits for the root's answer; the root of Gather, AllGather and AllToAll *)
(* waits in its loop of receives for the frame of participants.at(i).  The *)
(* argument `st` of a sendrecv tells where the call stands: Start for a    *)
(* new call, or the st of the result it was suspended with.                *)

Start == [at |-> "start", i |-> 0, displ |-> 0, buf |-> << >>]

\* the call has sent and waits for its receive: r is what it will return
Suspended(m, r, recvbuf) ==
    [blk |-> FALSE, wait |-> TRUE, r |-> r, errno |-> "", recvbuf |-> recvbuf,
     hm |-> m, st |-> [at |-> "recv", i |-> 0, displ |-> 0, buf |-> << >>]]

\* the root waits in iteration i of its loop of receives, with displ (and
\* allsendbuff in buf) as the iterations before left them
SuspendedInLoop(m, recvbuf, i, displ, buf) ==
    [blk |-> FALSE, wait |-> TRUE, r |-> 0, errno |-> "", recvbuf |-> recvbuf,
     hm |-> m, st |-> [at |-> "loop", i |-> i, displ |-> displ, buf |-> buf]]

\* the call returned
Returned(res) == "wait" \notin DOMAIN res

---------------------------------------------------------------------------
(* Gather *)

\* displ += chunksize
GatherAdvanceStuck(displ, chunksize) == displ

GatherAdvance(displ, chunksize) == displ + chunksize

\* GatherGeneric / AllGatherGeneric::sendrecv, root: the loop that receives
\* the share of participants.at(i) at displacement displ.  It ends at the
\* first receive that returns <= 0, with that value; r = 1 when it ran to
\* its end.  Where the receive has to wait the call is suspended; `moved`
\* tells whether the call changed anything since it was entered or resumed
\* (a call that has to wait and has changed nothing is no step: Blocked).
RECURSIVE GatherRecvLoop(_, _, _, _, _, _, _, _, _)
GatherRecvNext(m, ps, i, n, recvbuf, recvsize, datasize, displ, moved, res) ==
    IF res.blk THEN
        IF moved THEN SuspendedInLoop(m, recvbuf, i, displ, << >>) ELSE Blocked
    ELSE IF res.r <= 0 THEN CallResult(res.hm, res.r, res.errno, recvbuf)
    ELSE GatherRecvLoop(res.hm, ps, i + 1, n, Put(recvbuf, displ, res.data),
                        recvsize, datasize,
                        GatherAdvance(displ, GatherRootChunk(i, recvsize, datasize, n)),
                        TRUE)

GatherRecvLoop(m, ps, i, n, recvbuf, recvsize, datasize, displ, moved) ==
    IF i >= n - 1 THEN CallResult(m, 1, "", recvbuf)
    ELSE GatherRecvNext(m, ps, i, n, recvbuf, recvsize, datasize, displ, moved,
            receiveFromHandle(m, ps[i + 1], GatherRootChunk(i, recvsize, datasize, n)))

\* GatherGeneric::sendrecv, root, after the loop
GatherReceived(selfrecvcount, lp) ==
    IF lp.blk THEN Blocked
    ELSE IF ~Returned(lp) THEN lp
    ELSE IF lp.r <= 0 THEN lp
    ELSE [lp EXCEPT !.r = selfrecvcount]

\* GatherGeneric / AllGatherGeneric::sendrecv, non-root, after the send
GatherSent(chunksize, recvbuf, sd) ==
    IF sd.r < 0 THEN CallResult(sd.hm, -1, "ECONNRESET", recvbuf)
    ELSE CallResult(sd.hm, chunksize, "", recvbuf)

\* GatherGeneric / AllGatherGeneric::sendrecv, non-root: the send of the share
GatherPeerSend(m, ps, chunksize, sendbuf, sendsize, recvbuf) ==
    IF chunksize > sendsize THEN Rejected(m, recvbuf, "EINVAL")
    ELSE GatherSent(chunksize, recvbuf, HSend(m, ps[1], Slice(sendbuf, 0, chunksize)))

\* GatherGeneric / AllGatherGeneric::sendrecv, root: its own share copied,
\* then the loop
GatherRootRecv(m, ps, n, selfrecvcount, sendbuf, sendsize, recvbuf, recvsize, datasize) ==
    IF sendsize < selfrecvcount THEN Rejected(m, recvbuf, "EINVAL")
    ELSE IF recvbuf = Null THEN Rejected(m, recvbuf, "EFAULT")
    ELSE GatherReceived(selfrecvcount,
            GatherRecvLoop(m, ps, 0, n,
                           Put(recvbuf, 0, Slice(sendbuf, 0, selfrecvcount)),
                           recvsize, datasize, selfrecvcount,
                           Put(recvbuf, 0, Slice(sendbuf, 0, selfrecvcount)) # recvbuf))

\* GatherGeneric::sendrecv, root, suspended in its loop: the loop goes on
\* at iteration st.i
GatherRootResume(m, ps, n, selfrecvcount, recvbuf, recvsize, datasize, st) ==
    GatherReceived(selfrecvcount,
        GatherRecvLoop(m, ps, st.i, n, recvbuf, recvsize, datasize, st.displ, FALSE))

\* GatherGeneric::sendrecv
GatherSendrecv(m, ps, n, root, rank, sendbuf, sendsize, recvbuf, recvsize, datasize, st) ==
    IF st.at = "loop" THEN
        GatherRootResume(m, ps, n, GatherSelfCount(recvsize, datasize, n), recvbuf,
                         recvsize, datasize, st)
    ELSE IF sendbuf = Null THEN Rejected(m, recvbuf, "EFAULT")
    ELSE IF recvsize % datasize # 0 THEN Rejected(m, recvbuf, "EINVAL")
    ELSE IF root THEN
        GatherRootRecv(m, ps, n, GatherSelfCount(recvsize, datasize, n),
                       sendbuf, sendsize, recvbuf, recvsize, datasize)
    ELSE GatherPeerSend(m, ps, GatherPeerChunk(rank, recvsize, datasize, n),
                        sendbuf, sendsize, recvbuf)

---------------------------------------------------------------------------
\* if (receiveFromHandle(h, recvbuff, recvsize) == 0) h->close(true, false);
\* return ret
RecvThenReturn(h, recvbuf, ret, res) ==
    IF res.blk THEN Blocked
    ELSE CallResult(IF res.r = 0 THEN HClose(res.hm, h, TRUE, FALSE) ELSE res.hm,
                    ret, res.errno, Put(recvbuf, 0, res.data))

---------------------------------------------------------------------------
(* AllGather *)

\* AllGatherGeneric::sendrecv, root, after the loop of sends
AllGatherSent(selfrecvcount, recvbuf, sa) ==
    IF ~sa.ok THEN CallResult(sa.hm, -1, "ECONNRESET", recvbuf)
    ELSE CallResult(sa.hm, selfrecvcount, "", recvbuf)

\* AllGatherGeneric::sendrecv, root, after the loop of receives: the whole
\* of recvbuff goes to every participant
AllGatherReceived(ps, selfrecvcount, recvsize, lp) ==
    IF lp.blk THEN Blocked
    ELSE IF ~Returned(lp) THEN lp
    ELSE IF lp.r <= 0 THEN lp
    ELSE AllGatherSent(selfrecvcount, lp.recvbuf,
                       SendAll(lp.hm, ps, 1, Slice(lp.recvbuf, 0, recvsize)))

\* AllGatherGeneric::sendrecv, root
AllGatherRoot(m, ps, n, selfrecvcount, sendbuf, sendsize, recvbuf, recvsize, datasize) ==
    IF sendsize < selfrecvcount THEN Rejected(m, recvbuf, "EINVAL")
    ELSE AllGatherReceived(ps, selfrecvcount, recvsize,
            GatherRecvLoop(m, ps, 0, n,
                           Put(recvbuf, 0, Slice(sendbuf, 0, selfrecvcount)),
                           recvsize, datasize, selfrecvcount,
                           Put(recvbuf, 0, Slice(sendbuf, 0, selfrecvcount)) # recvbuf))

\* AllGatherGeneric::sendrecv, root, suspended in its loop of receives
AllGatherRootResume(m, ps, n, selfrecvcount, recvbuf, recvsize, datasize, st) ==
    AllGatherReceived(ps, selfrecvcount, recvsize,
        GatherRecvLoop(m, ps, st.i, n, recvbuf, recvsize, datasize, st.displ, FALSE))

\* AllGatherGeneric::sendrecv, non-root, after the send of its share
AllGatherPeerSent(chunksize, recvbuf, sd) ==
    IF sd.r < 0 THEN CallResult(sd.hm, -1, "ECONNRESET", recvbuf)
    ELSE Suspended(sd.hm, chunksize, recvbuf)

\* AllGatherGeneric::sendrecv, non-root
AllGatherPeer(m, h, chunksize, sendbuf, sendsize, recvbuf, recvsize, st) ==
    IF chunksize > sendsize THEN Rejected(m, recvbuf, "EINVAL")
    ELSE IF st.at = "start" THEN
        AllGatherPeerSent(chunksize, recvbuf,
                          HSend(m, h, Slice(sendbuf, 0, chunksize)))
    ELSE RecvThenReturn(h, recvbuf, chunksize, receiveFromHandle(m, h, recvsize))

\* AllGatherGeneric::sendrecv
AllGatherSendrecv(m, ps, n, root, rank, sendbuf, sendsize, recvbuf, recvsize, datasize, st) ==
    IF st.at = "loop" THEN
        AllGatherRootResume(m, ps, n, GatherSelfCount(recvsize, datasize, n), recvbuf,
                            recvsize, datasize, st)
    ELSE IF sendbuf = Null THEN Rejected(m, recvbuf, "EFAULT")
    ELSE IF recvbuf = Null THEN Rejected(m, recvbuf, "EFAULT")
    ELSE IF recvsize % datasize # 0 THEN Rejected(m, recvbuf, "EINVAL")
    ELSE IF root THEN
        AllGatherRoot(m, ps, n, GatherSelfCount(recvsize, datasize, n),
                      sendbuf, sendsize, recvbuf, recvsize, datasize)
    ELSE AllGatherPeer(m, ps[1], GatherPeerChunk(rank, recvsize, datasize, n),
                       sendbuf, sendsize, recvbuf, recvsize, st)

\* AllGatherGeneric::close, AlltoallGeneric::close, GatherGeneric::close:
\* for (auto& h : participants) h->close(true, false)
RECURSIVE CloseAllWr(_, _, _)
CloseAllWr(m, ps, i) ==
    IF i > Len(ps) THEN m ELSE CloseAllWr(HClose(m, ps[i], TRUE, FALSE), ps, i + 1)

---------------------------------------------------------------------------
(* AllToAll *)

\* offset += chunksize
AlltoallOffsetStuck(offset, chunksize) == offset

AlltoallOffset(offset, chunksize) == offset + chunksize

\* AlltoallGeneric::sendrecv, root: the loop that receives the sendbuff of
\* participants.at(i) into allsendbuff at i * sendsize; where the receive
\* has to wait the call is suspended, with allsendbuff as it is (`moved`
\* as in GatherRecvLoop)
RECURSIVE AlltoallRecvLoop(_, _, _, _, _, _, _)
AlltoallRecvNext(m, ps, i, n, allsendbuff, sendsize, moved, res) ==
    IF res.blk THEN
        IF moved THEN SuspendedInLoop(m, << >>, i, 0, allsendbuff) ELSE Blocked
    ELSE IF res.r <= 0 THEN CallResult(res.hm, res.r, res.errno, allsendbuff)
    ELSE AlltoallRecvLoop(res.hm, ps, i + 1, n,
                          Put(allsendbuff, i * sendsize, res.data), sendsize, TRUE)

AlltoallRecvLoop(m, ps, i, n, allsendbuff, sendsize, moved) ==
    IF i >= n - 1 THEN CallResult(m, 1, "", allsendbuff)
    ELSE AlltoallRecvNext(m, ps, i, n, allsendbuff, sendsize, moved,
            receiveFromHandle(m, ps[i + 1], sendsize))

\* for (j = 0; j < nparticipants - 1; j++)
\*     memcpy(chunkbuff + offset, allsendbuff + j * sendsize + displ, chunksize)
RECURSIVE AlltoallFill(_, _, _, _, _, _, _, _)
AlltoallFill(chunkbuff, j, n, allsendbuff, sendsize, displ, chunksize, offset) ==
    IF j >= n - 1 THEN chunkbuff
    ELSE AlltoallFill(Put(chunkbuff, offset,
                          Slice(allsendbuff, j * sendsize + displ, chunksize)),
                      j + 1, n, allsendbuff, sendsize, displ, chunksize,
                      AlltoallOffset(offset, chunksize))

\* the chunkbuff of iteration i: the root's own chunk first, then the
\* chunks of the participants in order
AlltoallChunkBuff(base, n, sendbuf, allsendbuff, sendsize, displ, chunksize) ==
    AlltoallFill(Put(base, 0, Slice(sendbuf, displ, chunksize)), 0, n,
                 allsendbuff, sendsize, displ, chunksize, chunksize)

\* AlltoallGeneric::sendrecv, root: the loop that routes; shares[i + 1] is
\* the chunksize of iteration i.  Iteration 0 fills recvbuff, iteration
\* i > 0 sends chunksize * nparticipants bytes to participants.at(i - 1).
RECURSIVE AlltoallRouteLoop(_, _, _, _, _, _, _, _, _, _)
AlltoallRouteNext(ps, i, n, shares, sendbuf, allsendbuff, sendsize, recvbuf, displ, sd) ==
    IF sd.r < 0 THEN [ok |-> FALSE, hm |-> sd.hm, recvbuf |-> recvbuf]
    ELSE AlltoallRouteLoop(sd.hm, ps, i + 1, n, shares, sendbuf, allsendbuff,
                           sendsize, recvbuf, displ + shares[i + 1])

AlltoallRouteLoop(m, ps, i, n, shares, sendbuf, allsendbuff, sendsize, recvbuf, displ) ==
    IF i >= n THEN [ok |-> TRUE, hm |-> m, recvbuf |-> recvbuf]
    ELSE IF i = 0 THEN
        AlltoallRouteLoop(m, ps, i + 1, n, shares, sendbuf, allsendbuff, sendsize,
            AlltoallChunkBuff(recvbuf, n, sendbuf, allsendbuff, sendsize, displ,
                              shares[i + 1]),
            displ + shares[i + 1])
    ELSE
        AlltoallRouteNext(ps, i, n, shares, sendbuf, allsendbuff, sendsize, recvbuf,
            displ,
            HSend(m, ps[i],
                  AlltoallChunkBuff(Fresh(shares[i + 1] * n), n, sendbuf, allsendbuff,
                                    sendsize, displ, shares[i + 1])))

\* AlltoallGeneric::sendrecv, root, after the loop that routes
AlltoallRouted(selfrecvcount, rl) ==
    IF rl.ok THEN CallResult(rl.hm, selfrecvcount, "", rl.recvbuf)
    ELSE CallResult(rl.hm, -1, "ECONNRESET", rl.recvbuf)

\* AlltoallGeneric::sendrecv, root, after the loop of receives: lp.recvbuf is
\* allsendbuff
AlltoallReceived(ps, n, selfrecvcount, sendbuf, sendsize, recvbuf, datasize, lp) ==
    IF lp.blk THEN Blocked
    ELSE IF ~Returned(lp) THEN [lp EXCEPT !.recvbuf = recvbuf]
    ELSE IF lp.r <= 0 THEN CallResult(lp.hm, lp.r, lp.errno, recvbuf)
    ELSE AlltoallRouted(selfrecvcount,
            AlltoallRouteLoop(lp.hm, ps, 0, n, AlltoallShares(sendsize, datasize, n),
                              sendbuf, lp.recvbuf, sendsize, recvbuf, 0))

\* AlltoallGeneric::sendrecv, non-root, after the send of its sendbuff
AlltoallPeerSent(selfrecvcount, recvbuf, sd) ==
    IF sd.r < 0 THEN CallResult(sd.hm, -1, "ECONNRESET", recvbuf)
    ELSE Suspended(sd.hm, selfrecvcount, recvbuf)

\* AlltoallGeneric::sendrecv
AlltoallSendrecv(m, ps, n, root, rank, sendbuf, sendsize, recvbuf, recvsize, datasize, st) ==
    IF st.at = "loop" THEN
        \* the root, suspended in its loop of receives
        AlltoallReceived(ps, n, AlltoallSelfRecvCount(rank, sendsize, datasize, n),
            sendbuf, sendsize, recvbuf, datasize,
            AlltoallRecvLoop(m, ps, st.i, n, st.buf, sendsize, FALSE))
    ELSE IF sendbuf = Null THEN Rejected(m, recvbuf, "EFAULT")
    ELSE IF recvbuf = Null THEN Rejected(m, recvbuf, "EFAULT")
    ELSE IF sendsize % datasize # 0 THEN Rejected(m, recvbuf, "EINVAL")
    ELSE IF recvsize < AlltoallSelfRecvCount(rank, sendsize, datasize, n)
    THEN Rejected(m, recvbuf, "EINVAL")
    ELSE IF root THEN
        AlltoallReceived(ps, n, AlltoallSelfRecvCount(rank, sendsize, datasize, n),
            sendbuf, sendsize, recvbuf, datasize,
            AlltoallRecvLoop(m, ps, 0, n, Fresh(sendsize * (n - 1)), sendsize, FALSE))
    ELSE IF st.at = "start" THEN
        AlltoallPeerSent(AlltoallSelfRecvCount(rank, sendsize, datasize, n), recvbuf,
                         HSend(m, ps[1], Slice(sendbuf, 0, sendsize)))
    ELSE RecvThenReturn(ps[1], recvbuf,
                        AlltoallSelfRecvCount(rank, sendsize, datasize, n),
                        receiveFromHandle(m, ps[1], recvsize))

---------------------------------------------------------------------------
(* FanIn *)

\* participants.erase(iter), iter at index i (from 1)
RemoveAt(ps, i) == SubSeq(ps, 1, i - 1) \o SubSeq(ps, i + 1, Len(ps))

\* FanInGeneric::probe, after the loop: with no participant left the result
\* is the end of stream of the group, size = 0 and res = sizeof(size_t).
\* idx is probed_idx, last the handle probed last, e the value of errno.
FanInProbeReturnNoGroupEos(m, ps, r, size, e, idx, last) ==
    [blk |-> FALSE, wait |-> FALSE, r |-> r, size |-> size, errno |-> e, hm |-> m,
     ps |-> ps, idx |-> idx, last |-> last]

FanInProbeReturn(m, ps, r, size, e, idx, last) ==
    IF ps = << >>
    THEN [blk |-> FALSE, wait |-> FALSE, r |-> HdrSize, size |-> 0, errno |-> e,
          hm |-> m, ps |-> ps, idx |-> idx, last |-> last]
    ELSE [blk |-> FALSE, wait |-> FALSE, r |-> r, size |-> size, errno |-> e,
          hm |-> m, ps |-> ps, idx |-> idx, last |-> last]

\* a blocking FanInGeneric::probe that has found nothing in a whole round
\* and goes on polling: the call has not returned, what it did so far (the
\* handles it removed, errno as its polls left it) is done
FanInPolling(m, ps, size, e, idx, last) ==
    [blk |-> FALSE, wait |-> TRUE, r |-> 0 - 1, size |-> size, errno |-> e,
     hm |-> m, ps |-> ps, idx |-> idx, last |-> last]

\* FanInGeneric::probe, the loop `while (res == -1 && !participants.empty())`
\* with iter at index i (from 1); size and idx are the caller's size and
\* probed_idx so far, e is errno (a probe of the transport sets it only
\* when it fails) and last the handle probed last.  A blocking call polls
\* round after round: `changed` tells whether this round removed a handle,
\* `entry` whether the call removed one since it was entered or resumed,
\* and what errno and the handle probed last were then.  A round that ends
\* with nothing found and nothing removed would be repeated unchanged: the
\* call then goes on polling (FanInPolling); when it has removed nothing
\* and errno and the handle probed last are as they were at entry, the
\* call has done nothing (Blocked).
FanInEntry(e, last) == [moved |-> FALSE, e |-> e, last |-> last]

RECURSIVE FanInScan(_, _, _, _, _, _, _, _, _, _, _)

\* if (iter == participants.end()) { if (blocking) iter = begin; else break; }
FanInWrap(m, ps, i, blocking, size, e, idx, changed, entry, junk, last) ==
    IF i <= Len(ps)
    THEN FanInScan(m, ps, i, blocking, size, e, idx, changed, entry, junk, last)
    ELSE IF ~blocking THEN FanInProbeReturn(m, ps, -1, size, e, idx, last)
    ELSE IF changed
    THEN FanInScan(m, ps, 1, blocking, size, e, idx, FALSE, entry, junk, last)
    ELSE IF ~entry.moved /\ e = entry.e /\ last = entry.last THEN Blocked
    ELSE FanInPolling(m, ps, size, e, idx, last)

\* the handle at iter sent EOS: it is erased (iter is then at the handle
\* that followed it) and closed; at the end the scan wraps or breaks,
\* otherwise it goes on with iter++
FanInErased(m, ps, i, blocking, p, e, idx, entry, junk) ==
    IF i > Len(ps) - 1
    THEN FanInWrap(HClose(p.hm, ps[i], TRUE, TRUE), RemoveAt(ps, i), i, blocking,
                   p.size, e, idx, TRUE, [entry EXCEPT !.moved = TRUE], junk, ps[i])
    ELSE FanInWrap(HClose(p.hm, ps[i], TRUE, TRUE), RemoveAt(ps, i), i + 1, blocking,
                   p.size, e, idx, TRUE, [entry EXCEPT !.moved = TRUE], junk, ps[i])

\* one iteration: p is the result of h->probe(size, false) on the handle at
\* iter, e the value of errno before it.  A probe that returns -1 leaves
\* the handles and size as they were (m, size) and sets errno.
FanInProbed(m, ps, i, blocking, size, e, idx, changed, entry, junk, p) ==
    IF p.r > 0 /\ p.size = 0
    THEN FanInErased(m, ps, i, blocking, p, e, idx, entry, junk)
    ELSE IF p.r > 0 THEN
        \* probed_idx = iter - participants.begin(); h->probed = {true, size}
        FanInProbeReturn([p.hm EXCEPT ![ps[i]].probed = TRUE, ![ps[i]].psize = p.size],
                         ps, p.r, p.size, e, i - 1, ps[i])
    ELSE IF p.r = 0 THEN
        \* res == 0 ends the loop
        FanInProbeReturn(p.hm, ps, 0, p.size, e, idx, ps[i])
    ELSE FanInWrap(m, ps, i + 1, blocking, size, p.errno, idx, changed, entry,
                   junk, ps[i])

FanInScan(m, ps, i, blocking, size, e, idx, changed, entry, junk, last) ==
    IF ps = << >> THEN FanInProbeReturn(m, ps, -1, size, e, idx, last)
    ELSE FanInProbed(m, ps, i, blocking, size, e, idx, changed, entry, junk,
                     HProbe(m, ps[i], FALSE, size, junk))

\* FanInGeneric::probe(size, blocking), entered with errno clear.  A
\* blocking call that finds nothing goes on polling, with errno as the
\* failing h->probe of its round left it.
FanInProbe(m, ps, blocking, size, idx, junk) ==
    FanInScan(m, ps, 1, blocking, size, "", idx, FALSE,
              FanInEntry("", << >>), junk, << >>)

\* a blocking FanInGeneric::probe that was polling (FanInPolling) goes on:
\* its next round, with errno and the handle probed last as it left them
FanInPoll(m, ps, size, e, idx, last, junk) ==
    FanInScan(m, ps, 1, TRUE, size, e, idx, FALSE,
              FanInEntry(e, last), junk, last)

\* FanInGeneric::receive, after r = h->receive(buff, size)
FanInReceived(h, idx, rc) ==
    IF rc.r <= 0
    THEN [blk |-> FALSE, r |-> -1, data |-> rc.data, hm |-> rc.hm, idx |-> idx]
    ELSE [blk |-> FALSE, r |-> rc.r, data |-> rc.data,
          hm |-> [rc.hm EXCEPT ![h].probed = FALSE, ![h].psize = 0], idx |-> -1]

\* FanInGeneric::receive(buff, size), probed_idx a valid index
FanInReceive(m, ps, idx, size) ==
    IF m[ps[idx + 1]].q = << >> THEN Blocked
    ELSE FanInReceived(ps[idx + 1], idx, HReceive(m, ps[idx + 1], size))

\* FanInGeneric::send(buff, size)
FanInSent(size, sa) == [r |-> IF sa.ok THEN size ELSE -1, hm |-> sa.hm]

FanInSend(m, ps, data) == FanInSent(Len(data), SendAll(m, ps, 1, data))

\* FanInGeneric::close
FanInClose(m, ps, root) ==
    IF ~root THEN HClose(m, ps[1], TRUE, FALSE) ELSE m

---------------------------------------------------------------------------
(* Specification SpecPart: the partition arithmetic alone.  The arguments *)
(* (group size, datasize, total of a multiple of datasize) are drawn in   *)
(* Init; each action computes the shares of all ranks the way one          *)
(* strategy does.                                                          *)

NoHandles == << >>

PartInit ==
    /\ cfg \in {[n |-> n, ds |-> d, total |-> c * d] :
                    n \in 1..PartMaxN, d \in 1..PartMaxDS, c \in 0..PartMaxCount}
    /\ hm = NoHandles /\ parts = << >> /\ pc = << >> /\ mem = << >>
    /\ obs = [op |-> "none"]

PartObserve(op, unit, shares) ==
    /\ obs' = [op |-> op, unit |-> unit, shares |-> shares]
    /\ UNCHANGED <<cfg, hm, parts, pc, mem>>

PartScatter ==
    PartObserve("scatter", 1, ScatterShares(cfg.total, cfg.ds, cfg.n))

PartGatherRoot ==
    PartObserve("gather-root", 1,
        <<GatherSelfCount(cfg.total, cfg.ds, cfg.n)>> \o
        [i \in 1..cfg.n - 1 |-> GatherRootChunk(i - 1, cfg.total, cfg.ds, cfg.n)])

PartGatherPeers ==
    PartObserve("gather-peers", 1,
        <<GatherSelfCount(cfg.total, cfg.ds, cfg.n)>> \o
        [r \in 1..cfg.n - 1 |-> GatherPeerChunk(r, cfg.total, cfg.ds, cfg.n)])

PartAlltoall ==
    PartObserve("alltoall", 1, AlltoallShares(cfg.total, cfg.ds, cfg.n))

PartAlltoallSelf ==
    PartObserve("alltoall-self", cfg.n,
        [r \in 1..cfg.n |->
            AlltoallSelfRecvCount(r - 1, cfg.total, cfg.ds, cfg.n) \div cfg.n])

PartTeam ==
    PartObserve("team", cfg.ds,
        [r \in 1..cfg.n |->
            getTeamPartitionSize(cfg.total \div cfg.ds, cfg.n, r - 1)])

PartNext ==
    \/ PartScatter
    \/ PartGatherRoot
    \/ PartGatherPeers
    \/ PartAlltoall
    \/ PartAlltoallSelf
    \/ PartTeam

SpecPart == PartInit /\ [][PartNext]_vars

\* The bytes of rank r's share, as the observed strategy computed it
\* (getTeamPartitionSize counts elements: unit = datasize).
ObservedShare(r) ==
    IF obs.op = "team" THEN obs.shares[r + 1] * obs.unit ELSE obs.shares[r + 1]

(* C1: whatever strategy computes the shares (Scatter's root, Gather's and *)
(* AllGather's root and non-roots, AllToAll's root loop and selfrecvcount, *)
(* getTeamPartitionSize in elements), rank r's share is                    *)
(* chunk(r) = base + (datasize if r < remainder else 0); the shares of all *)
(* ranks sum to the total; and when total = k*datasize*n every share is    *)
(* k*datasize.                                                             *)
C1_PartitionIdentical ==
    obs.op # "none" =>
        /\ Len(obs.shares) = cfg.n
        /\ \A r \in 0..cfg.n - 1 :
              ObservedShare(r) = Chunk(r, cfg.total, cfg.ds, cfg.n)
        /\ SumSeq([r \in 1..cfg.n |-> ObservedShare(r - 1)]) = cfg.total
        /\ \A k \in 0..PartMaxCount :
              cfg.total = k * cfg.ds * cfg.n =>
                  \A r \in 0..cfg.n - 1 : ObservedShare(r) = k * cfg.ds

\* a root's index comparison has been used on a total with a remainder of
\* at least 2, where the first ranks carry one element more than the last
C1_Witness ==
    /\ obs.op = "gather-root"
    /\ cfg.n >= 3 /\ cfg.ds >= 2
    /\ (cfg.total \div cfg.ds) % cfg.n >= 2
    /\ obs.shares[2] = obs.shares[cfg.n] + cfg.ds

---------------------------------------------------------------------------
(* Specification SpecFraming: one handle FrX, used only through the       *)
(* framing helper, and the peer at its other end.  The peer sends          *)
(* messages (of 0 to MaxMsg bytes) and closes; the connection may break;   *)
(* the owner calls probeHandle (blocking or not) and receiveFromHandle     *)
(* (with any capacity) in any order.                                       *)

FrX == Hid(1, 0, 1)
FrY == Hid(1, 1, 0)

\* the payload of the k-th message of a sender: bytes that tell it apart
Payload(k, len) == [i \in 1..len |-> 10 * k + i]

FrInit ==
    /\ cfg = [n |-> 2]
    /\ hm = [x \in {FrX, FrY} |-> NewHandle]
    /\ parts = << >> /\ mem = << >>
    /\ pc = [sent |-> 0]
    /\ obs = [op |-> "none", arg |-> 0, r |-> 0, size |-> 0, errno |-> "", io |-> 0,
              data |-> << >>, prev |-> [op |-> "none", r |-> 0, errno |-> ""],
              eos |-> "none"]

FrPeerSend ==
    \E len \in 0..MaxMsg :
        /\ pc.sent < FrMaxSends
        /\ ~hm[FrY].closed_wr
        /\ hm' = HSend(hm, FrY, Payload(pc.sent + 1, len)).hm
        /\ pc' = [pc EXCEPT !.sent = @ + 1]
        /\ UNCHANGED <<cfg, parts, mem, obs>>

FrPeerClose ==
    /\ ~hm[FrY].closed_wr
    /\ hm' = HClose(hm, FrY, TRUE, FALSE)
    /\ UNCHANGED <<cfg, parts, pc, mem, obs>>

FrLinkBreak ==
    \E c \in {"eof", "reset", "fail"} :
        /\ hm[FrX].cond = "ok"
        /\ hm' = [hm EXCEPT ![FrX].cond = c]
        /\ UNCHANGED <<cfg, parts, pc, mem, obs>>

\* how a call of the helper on FrX saw the end of the stream, if it did:
\* its transport probe (io > 0, no payload read) ended in a result of 0
FrEosSeen(res) ==
    IF obs.eos # "none" THEN obs.eos
    ELSE IF res.r = 0 /\ res.io = 1 THEN
        IF hm[FrX].q # << >> THEN "frame" ELSE hm[FrX].cond
    ELSE "none"

FrProbed(blocking, res) ==
    /\ ~res.blk
    /\ hm' = res.hm
    /\ obs' = [op |-> "probeHandle", arg |-> IF blocking THEN 1 ELSE 0,
               r |-> res.r, size |-> res.size, errno |-> res.errno, io |-> res.io,
               data |-> << >>,
               prev |-> [op |-> obs.op, r |-> obs.r, errno |-> obs.errno],
               eos |-> FrEosSeen(res)]
    /\ UNCHANGED <<cfg, parts, pc, mem>>

FrProbe(blocking) ==
    FrProbed(blocking, probeHandle(hm, FrX, blocking, obs.size))

FrReceived(cap, res) ==
    /\ ~res.blk
    /\ hm' = res.hm
    /\ obs' = [op |-> "receiveFromHandle", arg |-> cap,
               r |-> res.r, size |-> obs.size, errno |-> res.errno, io |-> res.io,
               data |-> res.data,
               prev |-> [op |-> obs.op, r |-> obs.r, errno |-> obs.errno],
               eos |-> FrEosSeen(res)]
    /\ UNCHANGED <<cfg, parts, pc, mem>>

FrReceive(cap) ==
    FrReceived(cap, receiveFromHandle(hm, FrX, cap))

FrOwnerProbe == \E b \in BOOLEAN : FrProbe(b)

FrOwnerReceive == \E cap \in 0..MaxMsg : FrReceive(cap)

FrNext ==
    \/ FrPeerSend
    \/ FrPeerClose
    \/ FrLinkBreak
    \/ FrOwnerProbe
    \/ FrOwnerReceive

SpecFraming == FrInit /\ [][FrNext]_vars

\* a header is consumed and its payload unread only for the message the
\* helper has cached
FrOnePending(m) ==
    m[FrX].hdr =>
        /\ m[FrX].probed /\ m[FrX].psize > 0
        /\ m[FrX].q # << >> /\ Len(Head(m[FrX].q)) = m[FrX].psize

(* C7: once probeHandle has cached a size s > 0 on a handle, every further *)
(* probeHandle call, blocking or not, returns a positive indicator with    *)
(* size = s, does not call the transport's probe and consumes nothing from *)
(* the channel; and at any time at most one message is probed and not yet  *)
(* received (a consumed header is the cached one, of the front message).   *)
C7_FramingIdempotence ==
    [][ /\ \A b \in BOOLEAN :
            (FrProbe(b) /\ hm[FrX].probed /\ hm[FrX].psize > 0) =>
                /\ obs'.r > 0
                /\ obs'.size = hm[FrX].psize
                /\ obs'.io = 0
                /\ hm' = hm
        /\ FrOnePending(hm')
      ]_vars

\* a cached size was probed again, twice in a row, by a non-blocking call
C7_Witness ==
    /\ obs.op = "probeHandle" /\ obs.prev.op = "probeHandle"
    /\ obs.arg = 0
    /\ obs.io = 0 /\ obs.r > 0 /\ obs.size = MaxMsg
    /\ hm[FrX].probed /\ hm[FrX].hdr

(* C8: receiveFromHandle with a capacity smaller than the size of the     *)
(* message at the front (probed already or not) returns -1 (ENOMEM),       *)
(* leaves the probed state pending with that size and the payload in the   *)
(* channel; and receiveFromHandle on a handle with a pending size s <= cap *)
(* (so also the call that follows the failed one) returns s and the whole  *)
(* payload and clears the probed state.                                    *)
C8_TooSmallKeepsFrame ==
    [][ \A cap \in 0..MaxMsg :
          FrReceive(cap) =>
            LET h == hm[FrX]
                front == IF h.q = << >> THEN << >> ELSE Head(h.q)
                open == (h.probed /\ ~h.closed_rd /\ h.psize > 0)
                        \/ (~h.probed /\ ~h.closed_rd /\ Len(front) > 0)
            IN  /\ (open /\ Len(front) > cap) =>
                     /\ obs'.r = -1 /\ obs'.errno = "ENOMEM"
                     /\ hm'[FrX].probed /\ hm'[FrX].psize = Len(front)
                     /\ hm'[FrX].q = h.q
                     /\ obs'.data = << >>
                /\ (open /\ Len(front) <= cap) =>
                     /\ obs'.r = Len(front) /\ obs'.data = front
                     /\ ~hm'[FrX].probed
                     /\ hm'[FrX].q = Tail(h.q)
      ]_vars

\* a receive failed for a buffer too small and the next one, with a buffer
\* large enough, returned the whole payload
C8_Witness ==
    /\ obs.op = "receiveFromHandle"
    /\ obs.prev.op = "receiveFromHandle" /\ obs.prev.errno = "ENOMEM"
    /\ obs.r = MaxMsg /\ Len(obs.data) = MaxMsg

(* C9: once probeHandle has observed the end of the stream on a handle (a *)
(* frame of size 0, a transport probe returning 0, or a probe failing with *)
(* ECONNRESET), the handle is read-closed, and every later probeHandle and *)
(* receiveFromHandle on it returns 0 without any call of the transport and *)
(* without change to the handle.                                           *)
C9_EosTerminal ==
    [][ /\ obs'.eos # "none" => hm'[FrX].closed_rd
        /\ (obs.eos # "none" /\ (FrOwnerProbe \/ FrOwnerReceive)) =>
              /\ obs'.r = 0 /\ obs'.io = 0
              /\ hm' = hm
      ]_vars

\* the end of the stream was observed, messages came in after it, and a
\* later receive returned 0
C9_Witness ==
    /\ obs.eos # "none"
    /\ obs.op = "receiveFromHandle" /\ obs.prev.op = "probeHandle"
    /\ obs.prev.r = 0 /\ obs.r = 0 /\ obs.io = 0
    /\ hm[FrX].q # << >>

(* C14: would-block changes nothing.  A non-blocking probeHandle on a      *)
(* handle with nothing cached, not read-closed, whose channel holds no     *)
(* frame returns -1 with EWOULDBLOCK and leaves the handle (probed state,  *)
(* close flags, channel) as it was; and the probeHandle that follows a     *)
(* would-block, once the peer has sent a message, returns a positive       *)
(* indicator and that message's size.                                      *)
C14_WouldBlockNoChange ==
    [][ /\ (FrProbe(FALSE) /\ ~hm[FrX].probed /\ ~hm[FrX].closed_rd
              /\ hm[FrX].q = << >> /\ hm[FrX].cond = "ok") =>
                /\ obs'.r = 0 - 1 /\ obs'.errno = "EWOULDBLOCK"
                /\ hm' = hm
        /\ (FrOwnerProbe /\ obs.op = "probeHandle" /\ obs.errno = "EWOULDBLOCK"
              /\ hm[FrX].q # << >> /\ Head(hm[FrX].q) # << >>) =>
                /\ obs'.r > 0 /\ obs'.size = Len(Head(hm[FrX].q))
                /\ hm'[FrX].probed /\ hm'[FrX].psize = obs'.size
      ]_vars

\* a probe would block, the peer sent a message of MaxMsg bytes, and the
\* next probe returned its size
C14_Witness ==
    /\ obs.op = "probeHandle" /\ obs.prev.op = "probeHandle"
    /\ obs.prev.errno = "EWOULDBLOCK" /\ obs.prev.r = 0 - 1
    /\ obs.r > 0 /\ obs.size = MaxMsg
    /\ hm[FrX].probed /\ ~hm[FrX].closed_rd

(* C21: the end of stream only half-closes for reading.  Whenever a call   *)
(* of probeHandle reaches the transport and detects the end of the stream  *)
(* (the transport's probe returns 0, or it reads a header of size 0), the  *)
(* handle is read-closed and its write-closed flag is left as it was.      *)
C21_EosHalfClosesRead ==
    [][ \A b \in BOOLEAN :
          (FrProbe(b) /\ obs'.io = 1 /\ obs'.r = 0 /\ obs'.errno # "ECONNRESET") =>
              /\ hm'[FrX].closed_rd
              /\ hm'[FrX].closed_wr = hm[FrX].closed_wr
      ]_vars

\* probeHandle read a header of size 0: the handle is read-closed, still
\* open for writing, and the end of the stream is cached
C21_Witness ==
    /\ obs.op = "probeHandle" /\ obs.io = 1 /\ obs.r = 0 /\ obs.eos = "frame"
    /\ hm[FrX].closed_rd /\ ~hm[FrX].closed_wr
    /\ hm[FrX].probed /\ hm[FrX].psize = 0

---------------------------------------------------------------------------
(* The states of a collective: the arguments, fresh handles of the teams   *)
(* in use, every participant's `participants` vector                       *)

Ranks == 0..cfg.n - 1

HandleIds(teams, n) ==
    {Hid(g, 0, p) : g \in teams, p \in 1..n - 1} \cup
    {Hid(g, p, 0) : g \in teams, p \in 1..n - 1}

Collectives ==
    {[n |-> n, ds |-> d, total |-> c * d] :
        n \in 1..MaxN, d \in 1..MaxDS, c \in 0..MaxCount}

\* the chunk and displacement of rank r for the scenario's total
MyChunk(r) == Chunk(r, cfg.total, cfg.ds, cfg.n)
MyDispl(r) == Displ(r, cfg.total, cfg.ds, cfg.n)

---------------------------------------------------------------------------
(* Specification SpecSG: the root scatters the buffer B over team 1; every *)
(* participant then gathers the share it received back to the root over    *)
(* team 2, with recvsize = |B|.                                           *)

SGBuf == Payload(0, cfg.total)

SGInit ==
    /\ cfg \in Collectives
    /\ hm = [x \in HandleIds({1, 2}, cfg.n) |-> NewHandle]
    /\ parts = [p \in Ranks |-> [g \in {1, 2} |-> Participants(g, p, cfg.n)]]
    /\ pc = [p \in Ranks |-> "scatter"]
    /\ mem = [p \in Ranks |-> [rbuf |-> << >>, sret |-> 0, gbuf |-> << >>, gret |-> 0,
                              st |-> Start]]
    /\ obs = [op |-> "none", p |-> 0, r |-> 0]

SGScattered(p, res) ==
    /\ ~res.blk
    /\ hm' = res.hm
    /\ mem' = [mem EXCEPT ![p].rbuf = res.recvbuf, ![p].sret = res.r]
    /\ pc' = [pc EXCEPT ![p] = "gather"]
    /\ obs' = [op |-> "scatter", p |-> p, r |-> res.r]
    /\ UNCHANGED <<cfg, parts>>

\* the participant's buffer holds its share exactly, or the whole of |B|
SGScatter(p) ==
    \E cap \in {MyChunk(p), cfg.total} :
        /\ pc[p] = "scatter"
        /\ SGScattered(p,
              ScatterSendrecv(hm, parts[p][1], cfg.n, p = 0,
                  IF p = 0 THEN SGBuf ELSE Null, IF p = 0 THEN cfg.total ELSE 0,
                  Fresh(cap), cap, cfg.ds))

\* a step of rank p's gather has run: the call returned, or the root waits
\* in its loop of receives
SGGathered(p, res) ==
    /\ ~res.blk
    /\ hm' = res.hm
    /\ mem' = [mem EXCEPT ![p].gbuf = res.recvbuf, ![p].gret = res.r,
                          ![p].st = IF Returned(res) THEN Start ELSE res.st]
    /\ pc' = [pc EXCEPT ![p] = IF Returned(res) THEN "done" ELSE "gathering"]
    /\ obs' = [op |-> IF Returned(res) THEN "gather" ELSE "gathering", p |-> p,
               r |-> res.r]
    /\ UNCHANGED <<cfg, parts>>

\* the share is what the scatter left in the participant's buffer
SGGather(p) ==
    /\ pc[p] = "gather"
    /\ mem[p].sret >= 0
    /\ SGGathered(p,
          GatherSendrecv(hm, parts[p][2], cfg.n, p = 0, p,
              mem[p].rbuf, mem[p].sret,
              IF p = 0 THEN Fresh(cfg.total) ELSE Null, cfg.total, cfg.ds, Start))

\* the root's gather goes on where it waited
SGGatherResume(p) ==
    /\ pc[p] = "gathering"
    /\ SGGathered(p,
          GatherSendrecv(hm, parts[p][2], cfg.n, p = 0, p,
              mem[p].rbuf, mem[p].sret, mem[p].gbuf, cfg.total, cfg.ds, mem[p].st))

SGNext ==
    \/ \E p \in Ranks : SGScatter(p)
    \/ \E p \in Ranks : SGGather(p)
    \/ \E p \in Ranks : SGGatherResume(p)

SpecSG == SGInit /\ [][SGNext]_vars

(* C2: Gather is the inverse of Scatter.  When the root's gather has      *)
(* returned, its recvbuf equals the scattered buffer B byte for byte, and  *)
(* the chunk(i) bytes at displacement sum of chunk(j), j < i, are the      *)
(* share rank i received from the scatter.                                 *)
C2_GatherInvertsScatter ==
    pc[0] = "done" =>
        /\ mem[0].gbuf = SGBuf
        /\ \A i \in Ranks :
              Slice(mem[0].gbuf, MyDispl(i), MyChunk(i)) = Slice(mem[i].rbuf, 0, MyChunk(i))

\* a buffer with a remainder went round a group of three or more
C2_Witness ==
    /\ pc[0] = "done" /\ mem[0].gret > 0
    /\ cfg.n >= 3 /\ (cfg.total \div cfg.ds) % cfg.n = 1 /\ cfg.ds = MaxDS
    /\ MyChunk(cfg.n - 1) > 0
    /\ mem[0].gbuf = SGBuf

---------------------------------------------------------------------------
(* Specification SpecA2A: one AllToAll sendrecv by every participant, all  *)
(* with sendsize = total; rank p's sendbuf is RankBuf(p, total), its       *)
(* recvbuf holds chunk(p) * n bytes or A2ASlack more.                      *)

\* the bytes of rank p's buffer: they tell the rank and the position
RankBuf(p, len) == [i \in 1..len |-> 100 * (p + 1) + i]

A2AInit ==
    /\ cfg \in Collectives
    /\ hm = [x \in HandleIds({3}, cfg.n) |-> NewHandle]
    /\ parts = [p \in Ranks |-> Participants(3, p, cfg.n)]
    /\ pc = [p \in Ranks |-> "start"]
    /\ mem = [p \in Ranks |-> [rbuf |-> << >>, ret |-> 0, cap |-> 0, st |-> Start]]
    /\ obs = [op |-> "none", p |-> 0, r |-> 0]

\* a step of rank p's sendrecv has run: the call returned, or it waits for
\* the root's answer, or the root waits in its loop of receives
A2AStepped(p, cap, res) ==
    /\ ~res.blk
    /\ hm' = res.hm
    /\ mem' = [mem EXCEPT ![p] = [rbuf |-> res.recvbuf, ret |-> res.r, cap |-> cap,
                                  st |-> IF Returned(res) THEN Start ELSE res.st]]
    /\ pc' = [pc EXCEPT ![p] = IF Returned(res) THEN "done" ELSE "recv"]
    /\ obs' = [op |-> "alltoall", p |-> p, r |-> res.r]
    /\ UNCHANGED <<cfg, parts>>

A2ACall(p) ==
    \E cap \in {MyChunk(p) * cfg.n, MyChunk(p) * cfg.n + A2ASlack} :
        /\ pc[p] = "start"
        /\ A2AStepped(p, cap,
              AlltoallSendrecv(hm, parts[p], cfg.n, p = 0, p,
                  RankBuf(p, cfg.total), cfg.total, Fresh(cap), cap, cfg.ds, Start))

A2AResume(p) ==
    /\ pc[p] = "recv"
    /\ A2AStepped(p, mem[p].cap,
          AlltoallSendrecv(hm, parts[p], cfg.n, p = 0, p,
              RankBuf(p, cfg.total), cfg.total, mem[p].rbuf, mem[p].cap, cfg.ds,
              mem[p].st))

A2ANext ==
    \/ \E p \in Ranks : A2ACall(p)
    \/ \E p \in Ranks : A2AResume(p)

SpecA2A == A2AInit /\ [][A2ANext]_vars

(* C3: AllToAll symmetry.  When rank j's sendrecv has returned, for every *)
(* rank i the chunk(j) bytes of rank i's sendbuf at displacement sum of    *)
(* chunk(k), k < j, are the bytes of rank j's recvbuf at i * chunk(j), and *)
(* the call returned chunk(j) * n; also for totals that are no multiple    *)
(* of n.                                                                   *)
C3_AlltoallSymmetry ==
    \A j \in Ranks :
        pc[j] = "done" =>
            /\ mem[j].ret = MyChunk(j) * cfg.n
            /\ \A i \in Ranks :
                  Slice(RankBuf(i, cfg.total), MyDispl(j), MyChunk(j)) =
                      Slice(mem[j].rbuf, i * MyChunk(j), MyChunk(j))

\* three participants or more have exchanged a total with a remainder, and
\* the last rank got bytes of every rank
C3_Witness ==
    /\ \A p \in Ranks : pc[p] = "done"
    /\ cfg.n >= 3 /\ (cfg.total \div cfg.ds) % cfg.n # 0 /\ cfg.ds = MaxDS
    /\ MyChunk(cfg.n - 1) > 0 /\ MyChunk(0) > MyChunk(cfg.n - 1)
    /\ mem[cfg.n - 1].ret = MyChunk(cfg.n - 1) * cfg.n
    /\ mem[cfg.n - 1].rbuf[mem[cfg.n - 1].ret] > 100 * cfg.n

---------------------------------------------------------------------------
(* Specification SpecAG: one AllGather sendrecv by every participant, all  *)
(* with recvsize = total; rank p contributes RankBuf(p, chunk(p)).  A     *)
(* participant whose sendrecv has returned may close the collective.       *)

\* the contributions of ranks 0..r-1 in rank order
RECURSIVE AGConcat(_)
AGConcat(r) ==
    IF r = 0 THEN << >> ELSE AGConcat(r - 1) \o RankBuf(r - 1, MyChunk(r - 1))

AGInit ==
    /\ cfg \in Collectives
    /\ hm = [x \in HandleIds({4}, cfg.n) |-> NewHandle]
    /\ parts = [p \in Ranks |-> Participants(4, p, cfg.n)]
    /\ pc = [p \in Ranks |-> "start"]
    /\ mem = [p \in Ranks |-> [rbuf |-> Fresh(cfg.total), ret |-> 0, st |-> Start]]
    /\ obs = [op |-> "none", p |-> 0, r |-> 0]

AGStepped(p, res) ==
    /\ ~res.blk
    /\ hm' = res.hm
    /\ mem' = [mem EXCEPT ![p] = [rbuf |-> res.recvbuf, ret |-> res.r,
                                  st |-> IF Returned(res) THEN Start ELSE res.st]]
    /\ pc' = [pc EXCEPT ![p] = IF Returned(res) THEN "done" ELSE "recv"]
    /\ obs' = [op |-> "allgather", p |-> p, r |-> res.r]
    /\ UNCHANGED <<cfg, parts>>

AGCall(p) ==
    /\ pc[p] = "start"
    /\ AGStepped(p,
          AllGatherSendrecv(hm, parts[p], cfg.n, p = 0, p,
              RankBuf(p, MyChunk(p)), MyChunk(p), mem[p].rbuf, cfg.total, cfg.ds,
              Start))

AGResume(p) ==
    /\ pc[p] = "recv"
    /\ AGStepped(p,
          AllGatherSendrecv(hm, parts[p], cfg.n, p = 0, p,
              RankBuf(p, MyChunk(p)), MyChunk(p), mem[p].rbuf, cfg.total, cfg.ds,
              mem[p].st))

\* AllGatherGeneric::close
AGClose(p) ==
    /\ pc[p] = "done"
    /\ hm' = CloseAllWr(hm, parts[p], 1)
    /\ pc' = [pc EXCEPT ![p] = "closed"]
    /\ obs' = [op |-> "close", p |-> p, r |-> 0]
    /\ UNCHANGED <<cfg, parts, mem>>

AGNext ==
    \/ \E p \in Ranks : AGCall(p)
    \/ \E p \in Ranks : AGResume(p)
    \/ \E p \in Ranks : AGClose(p)

SpecAG == AGInit /\ [][AGNext]_vars

AGReturned(p) == pc[p] \in {"done", "closed"}

(* C4: AllGather agreement.  When the sendrecv of every participant has   *)
(* returned, every recvbuf, the root's and every non-root's, holds the     *)
(* contributions of all ranks in rank order, and rank p's call returned    *)
(* chunk(p).                                                               *)
C4_AllGatherAgreement ==
    (\A p \in Ranks : AGReturned(p)) =>
        \A p \in Ranks :
            /\ mem[p].rbuf = AGConcat(cfg.n)
            /\ mem[p].ret = MyChunk(p)

\* all have returned after a rank with nothing to contribute sent its share:
\* the root returned 0 for a share of its own that is not empty
C4_Witness ==
    /\ \A p \in Ranks : AGReturned(p)
    /\ MyChunk(0) > 0 /\ MyChunk(cfg.n - 1) = 0
    /\ mem[0].ret = 0
    /\ mem[1].rbuf # AGConcat(cfg.n)

---------------------------------------------------------------------------
(* Specification SpecFanIn: a FanIn of n participants.  Every peer sends   *)
(* one message (of 1 to MaxMsg bytes; a send of 0 bytes is the end-of-     *)
(* stream frame itself) and closes.  The root loops: probe, blocking or    *)
(* not; receive when the probe found a message; stop at the end of stream  *)
(* of the group.                                                           *)
(*                                                                         *)
(* A probe is one step.  The loop of FanInGeneric::probe reads one handle  *)
(* per iteration and the peers only append to the handles' queues, never   *)
(* see the root and never wait: a send that arrives during a scan, at a    *)
(* handle the scan has passed, is a send that arrives after the scan.      *)

FiPeers == 1..cfg.n - 1

FiInit ==
    /\ cfg \in {[n |-> n] : n \in 1..MaxN}
    /\ hm = [x \in HandleIds({5}, cfg.n) |-> NewHandle]
    /\ parts = [p \in Ranks |-> Participants(5, p, cfg.n)]
    /\ pc = [p \in Ranks |-> IF p = 0 THEN "probe" ELSE "send"]
    /\ mem = [p \in Ranks |->
                 IF p = 0 THEN [log |-> << >>, size |-> 0, idx |-> 0 - 1,
                                errno |-> "", last |-> << >>]
                 ELSE [msg |-> << >>]]
    /\ obs = [op |-> "none", r |-> 0, size |-> 0, errno |-> "", removed |-> {},
              last |-> << >>]

\* the root's probe has returned, or it is a blocking probe that found
\* nothing and goes on polling, errno set by its polls and the handles
\* that sent EOS removed (pc "polling": obs.op is then "polling", the call
\* has no result)
FiProbed(res) ==
    /\ ~res.blk
    /\ hm' = res.hm
    /\ parts' = [parts EXCEPT ![0] = res.ps]
    /\ mem' = [mem EXCEPT ![0].size = res.size, ![0].idx = res.idx,
                          ![0].errno = res.errno, ![0].last = res.last]
    /\ pc' = [pc EXCEPT ![0] = IF res.wait THEN "polling"
                               ELSE IF res.r > 0 /\ res.size > 0 THEN "receive"
                               ELSE IF res.r > 0 THEN "eos"
                               ELSE "probe"]
    /\ obs' = [op |-> IF res.wait THEN "polling" ELSE "probe",
               r |-> res.r, size |-> res.size, errno |-> res.errno,
               removed |-> {parts[0][k] : k \in 1..Len(parts[0])} \
                           {res.ps[k] : k \in 1..Len(res.ps)},
               last |-> res.last]
    /\ UNCHANGED cfg

\* the root never probes with a payload pending, so that no probe of the
\* transport reads a payload for a header
FiProbe ==
    \E blocking \in BOOLEAN :
        /\ pc[0] = "probe"
        /\ \E res \in {FanInProbe(hm, parts[0], blocking, mem[0].size, mem[0].idx, 0)} :
              FiProbed(res)

\* the root's blocking probe, polling, gets on: it returns, or removes
\* more handles, or its polls leave another errno
FiPoll ==
    /\ pc[0] = "polling"
    /\ \E res \in {FanInPoll(hm, parts[0], mem[0].size, mem[0].errno, mem[0].idx,
                             mem[0].last, 0)} :
          FiProbed(res)

FiReceived(res) ==
    /\ ~res.blk
    /\ hm' = res.hm
    /\ mem' = [mem EXCEPT ![0].idx = res.idx,
                          ![0].log = IF res.r > 0 THEN Append(@, res.data) ELSE @]
    /\ pc' = [pc EXCEPT ![0] = "probe"]
    /\ obs' = [op |-> "receive", r |-> res.r, size |-> mem[0].size, errno |-> "",
               removed |-> {}, last |-> parts[0][mem[0].idx + 1]]
    /\ UNCHANGED <<cfg, parts>>

FiReceive ==
    /\ pc[0] = "receive"
    /\ FiReceived(FanInReceive(hm, parts[0], mem[0].idx, mem[0].size))

FiPeerSend(p) ==
    \E len \in 1..MaxMsg :
        /\ pc[p] = "send"
        /\ hm' = FanInSend(hm, parts[p], Payload(p, len)).hm
        /\ mem' = [mem EXCEPT ![p].msg = Payload(p, len)]
        /\ pc' = [pc EXCEPT ![p] = "close"]
        /\ UNCHANGED <<cfg, parts, obs>>

FiPeerClose(p) ==
    /\ pc[p] = "close"
    /\ hm' = FanInClose(hm, parts[p], FALSE)
    /\ pc' = [pc EXCEPT ![p] = "done"]
    /\ UNCHANGED <<cfg, parts, mem, obs>>

FiRoot == FiProbe \/ FiPoll \/ FiReceive

FiPeer(p) == FiPeerSend(p) \/ FiPeerClose(p)

FiNext ==
    \/ FiProbe
    \/ FiPoll
    \/ FiReceive
    \/ \E p \in FiPeers : FiPeerSend(p)
    \/ \E p \in FiPeers : FiPeerClose(p)

\* the root and every peer keep running
SpecFanIn ==
    /\ FiInit /\ [][FiNext]_vars
    /\ WF_vars(FiRoot)
    /\ \A p \in 1..MaxN - 1 : WF_vars(p \in FiPeers /\ FiPeer(p))

\* every receive so far returned the message of a peer that has sent it,
\* whole, and no message twice
FiDelivered ==
    /\ \A k \in 1..Len(mem[0].log) :
          \E p \in FiPeers : pc[p] # "send" /\ mem[0].log[k] = mem[p].msg
    /\ \A k, l \in 1..Len(mem[0].log) : k # l => mem[0].log[k] # mem[0].log[l]

\* the probe that ended the root's loop reported the end of stream of the
\* group, after one receive per peer
FiDrained ==
    pc[0] = "eos" =>
        /\ obs.op = "probe" /\ obs.r > 0 /\ obs.size = 0
        /\ parts[0] = << >>
        /\ Len(mem[0].log) = cfg.n - 1
        /\ \A p \in FiPeers : pc[p] = "done"

(* C5: FanIn drain.  When every peer sends one message and then closes,   *)
(* the root that loops probe/receive receives every message exactly once   *)
(* (nothing lost, nothing twice, nothing else), whatever the interleaving  *)
(* of the peers' sends and the root's probes, and it ends with a probe     *)
(* that yields the end of stream of the group: size = 0 with a positive    *)
(* result, participants empty.                                             *)
C5_FanInDrain ==
    /\ [](FiDelivered /\ FiDrained)
    /\ <>(pc[0] = "eos")

\* the root drained two peers, the message of the second first
C5_Witness ==
    /\ pc[0] = "eos" /\ cfg.n = 3
    /\ Len(mem[0].log) = 2
    /\ mem[0].log[1] = mem[2].msg /\ Len(mem[2].msg) = MaxMsg
    /\ mem[0].log[2] = mem[1].msg

(* C17: a non-blocking FanIn probe makes one full pass.  When a            *)
(* non-blocking probe of the root returns -1, no handle that remains in    *)
(* participants holds a frame: every one of them was probed and had        *)
(* nothing, also when an earlier handle of the scan was removed for its    *)
(* end of stream.                                                          *)
C17_FanInFullPass ==
    [][(/\ pc[0] = "probe"
        /\ FiProbed(FanInProbe(hm, parts[0], FALSE, mem[0].size, mem[0].idx, 0))
        /\ obs'.r = 0 - 1) =>
            \A k \in 1..Len(parts'[0]) : hm'[parts'[0][k]].q = << >>
      ]_vars

\* a probe returned -1 after it removed the first of two handles; the one
\* it probed last is the removed one, and the handle that remains holds a
\* message
C17_Witness ==
    /\ obs.op = "probe" /\ obs.r = 0 - 1
    /\ obs.removed # {} /\ obs.last \in obs.removed
    /\ Len(parts[0]) = 1 /\ hm[parts[0][1]].q # << >>
    /\ pc[0] = "probe"

---------------------------------------------------------------------------
(* Specification SpecFanInFault: the FanIn of SpecFanIn, where in addition *)
(* the connection of a peer may end at any time: the transport's probe of  *)
(* the root's handle then returns 0 (the peer's end is gone), or fails     *)
(* with ECONNRESET or with another error, once its queue is empty.         *)

FiLinkBreak(p) ==
    \E c \in {"eof", "reset", "fail"} :
        /\ hm[Hid(5, 0, p)].cond = "ok"
        /\ hm' = [hm EXCEPT ![Hid(5, 0, p)].cond = c]
        /\ UNCHANGED <<cfg, parts, pc, mem, obs>>

FiFaultNext ==
    \/ FiProbe
    \/ FiPoll
    \/ FiReceive
    \/ \E p \in FiPeers : FiPeerSend(p)
    \/ \E p \in FiPeers : FiPeerClose(p)
    \/ \E p \in FiPeers : FiLinkBreak(p)

SpecFanInFault == FiInit /\ [][FiFaultNext]_vars

\* the last probe reported the end of the stream to the caller
FiEosReported == obs.op = "probe" /\ (obs.r = 0 \/ (obs.r > 0 /\ obs.size = 0))

(* C10: FanIn absorbs the end of stream of one peer.  A handle on which a  *)
(* probe met the end of the stream (a frame of size 0, or a transport      *)
(* probe that returned 0) is closed and no longer in participants when the *)
(* probe returns; and the probe reports the end of the stream (a result of *)
(* 0, or size = 0 with a positive result) only with participants empty.    *)
C10_FanInAbsorbsEos ==
    obs.op = "probe" =>
        /\ \A x \in obs.removed : hm[x].closed_rd /\ hm[x].closed_wr
        /\ obs.r = 0 =>
              /\ hm[obs.last].closed_rd
              /\ \A k \in 1..Len(parts[0]) : parts[0][k] # obs.last
        /\ FiEosReported => parts[0] = << >>

\* a probe returned 0 for the connection of the first peer while the second
\* peer's message was waiting
C10_Witness ==
    /\ cfg.n = 3
    /\ obs.op = "probe" /\ obs.r = 0
    /\ obs.last = Hid(5, 0, 1)
    /\ Len(parts[0]) = 2
    /\ hm[Hid(5, 0, 2)].q # << >>

\* the transport's probe of handle x fails with an error other than
\* would-block: nothing is queued and the connection is broken
FiFailing(x) == hm[x].q = << >> /\ hm[x].cond \in {"reset", "fail"}

\* every handle that remains has a message, has reached the end of its
\* stream, or is failing
FiSettled ==
    \A k \in 1..Len(parts[0]) :
        hm[parts[0][k]].q # << >> \/ hm[parts[0][k]].cond # "ok"

\* the probe call returned -1 to its caller
FiFailureSurfaced(res) == ~res.blk /\ ~res.wait /\ res.r = 0 - 1

\* the probe call returned
FiTerminated(res) == ~res.blk /\ ~res.wait

(* C22: the FanIn probe surfaces transport failures.  When the probe of a  *)
(* peer handle fails with an error other than would-block (here: the first *)
(* handle the scan reads), the FanIn probe, blocking or not, returns -1;   *)
(* and a blocking FanIn probe returns once every remaining handle has a    *)
(* message, has reached the end of its stream or is failing.               *)
C22_FanInSurfacesFailure ==
    (pc[0] = "probe" /\ parts[0] # << >>) =>
        /\ FiFailing(parts[0][1]) =>
              \A b \in BOOLEAN :
                  FiFailureSurfaced(FanInProbe(hm, parts[0], b, mem[0].size,
                                               mem[0].idx, 0))
        /\ FiSettled =>
              FiTerminated(FanInProbe(hm, parts[0], TRUE, mem[0].size,
                                      mem[0].idx, 0))

\* in a group of three a non-blocking probe returned -1 after the
\* transport's probe of the handle it read last failed with EIO
C22_Witness ==
    /\ cfg.n = 3
    /\ obs.op = "probe" /\ obs.r = 0 - 1 /\ obs.errno = "EIO"
    /\ obs.last # << >> /\ hm[obs.last].cond = "fail" /\ hm[obs.last].q = << >>
    /\ Len(parts[0]) = 2

---------------------------------------------------------------------------
(* Specification SpecBroadcast: the root broadcasts up to MaxBcasts        *)
(* buffers B1, B2, ... of 0 to MaxMsg bytes, with a recvbuf of its own or  *)
(* none; every non-root calls sendrecv again and again with a recvbuf of   *)
(* MaxMsg bytes.                                                           *)

BcPeers == 1..cfg.n - 1

BcInit ==
    /\ cfg \in {[n |-> n] : n \in 1..MaxN}
    /\ hm = [x \in HandleIds({6}, cfg.n) |-> NewHandle]
    /\ parts = [p \in Ranks |-> Participants(6, p, cfg.n)]
    /\ pc = [p \in Ranks |-> "run"]
    /\ mem = [p \in Ranks |->
                 IF p = 0 THEN [sent |-> << >>, rbuf |-> Null]
                 ELSE [rets |-> << >>]]
    /\ obs = [op |-> "none", r |-> 0, framed |-> TRUE]

\* the root's call with buffer B has returned
BcRootDone(B, res) ==
    /\ hm' = res.hm
    /\ mem' = [mem EXCEPT ![0].sent = Append(@, B), ![0].rbuf = res.recvbuf]
    /\ obs' = [op |-> "bcast", r |-> res.r,
               framed |-> \A p \in BcPeers :
                   res.hm[Hid(6, p, 0)].q = Append(hm[Hid(6, p, 0)].q, B)]
    /\ UNCHANGED <<cfg, parts, pc>>

BcRoot ==
    \E len \in 0..MaxMsg, rb \in {Null, Fresh(MaxMsg)} :
        /\ Len(mem[0].sent) < MaxBcasts
        /\ BcRootDone(Payload(Len(mem[0].sent) + 1, len),
              BroadcastSendrecv(hm, parts[0], TRUE,
                  Payload(Len(mem[0].sent) + 1, len), len, rb, MaxMsg))

\* a non-root's call has returned
BcPeerDone(p, res) ==
    /\ ~res.blk
    /\ hm' = res.hm
    /\ mem' = [mem EXCEPT ![p].rets = Append(@, [r |-> res.r, buf |-> res.recvbuf])]
    /\ obs' = [op |-> "recv", r |-> res.r, framed |-> TRUE]
    /\ UNCHANGED <<cfg, parts, pc>>

BcPeer(p) ==
    /\ Len(mem[p].rets) < MaxBcasts
    /\ BcPeerDone(p,
          BroadcastSendrecv(hm, parts[p], FALSE, Null, 0, Fresh(MaxMsg), MaxMsg))

BcNext ==
    \/ BcRoot
    \/ \E p \in BcPeers : BcPeer(p)

SpecBroadcast == BcInit /\ [][BcNext]_vars

(* C6: Broadcast delivery and order.  For the buffers B1, B2, ... the root *)
(* has broadcast, the k-th sendrecv of every non-root returned |Bk| and    *)
(* left Bk in recvbuf[0..|Bk|); and the root's call put exactly one frame, *)
(* Bk, on every peer's channel, copied Bk into its recvbuf if it has one   *)
(* and returned sendsize.                                                  *)
C6_BroadcastDelivery ==
    /\ \A p \in BcPeers : \A k \in 1..Len(mem[p].rets) :
          /\ k <= Len(mem[0].sent)
          /\ mem[p].rets[k].r = Len(mem[0].sent[k])
          /\ Slice(mem[p].rets[k].buf, 0, Len(mem[0].sent[k])) = mem[0].sent[k]
    /\ obs.op = "bcast" =>
          /\ obs.framed
          /\ obs.r = Len(mem[0].sent[Len(mem[0].sent)])
          /\ mem[0].rbuf # Null =>
                Slice(mem[0].rbuf, 0, obs.r) = mem[0].sent[Len(mem[0].sent)]

\* an empty buffer was broadcast, then one of MaxMsg bytes, and a non-root
\* got 0 from its second sendrecv
C6_Witness ==
    /\ cfg.n >= 2
    /\ Len(mem[0].sent) >= 2
    /\ mem[0].sent[1] = << >> /\ Len(mem[0].sent[2]) = MaxMsg
    /\ Len(mem[1].rets) >= 2 /\ mem[1].rets[2].r = 0

---------------------------------------------------------------------------
(* close of the strategies, and the dispatch of sendrecv and close on the  *)
(* strategy a collective was created with                                  *)

\* BroadcastGeneric::close: the root write-closes every handle
BroadcastCloseAnyRole(m, ps, root) == CloseAllWr(m, ps, 1)

BroadcastClose(m, ps, root) == IF root THEN CloseAllWr(m, ps, 1) ELSE m

\* ScatterGeneric::close: the root write-closes every handle
ScatterClose(m, ps, root) == IF root THEN CloseAllWr(m, ps, 1) ELSE m

\* FanOutGeneric::close: the root write-closes every handle
FanOutClose(m, ps, root) == IF root THEN CloseAllWr(m, ps, 1) ELSE m

\* GatherGeneric::close: every participant write-closes every handle
GatherClose(m, ps, root) == CloseAllWr(m, ps, 1)

\* CollectiveImpl::close(close_wr, close_rd) of the strategy `kind`; the
\* two arguments are ignored by every strategy
StrategyClose(kind, m, ps, root) ==
    CASE kind = "broadcast" -> BroadcastClose(m, ps, root)
      [] kind = "scatter" -> ScatterClose(m, ps, root)
      [] kind = "fanout" -> FanOutClose(m, ps, root)
      [] kind = "fanin" -> FanInClose(m, ps, root)
      [] kind = "gather" -> GatherClose(m, ps, root)
      [] OTHER -> CloseAllWr(m, ps, 1)

\* CollectiveImpl::sendrecv of FanIn and FanOut, which do not override it
BaseSendrecv(m, recvbuf) == Rejected(m, recvbuf, "EINVAL")

\* CollectiveImpl::sendrecv(sendbuff, sendsize, recvbuff, recvsize, datasize)
\* of the strategy `kind`
StrategySendrecv(kind, m, ps, n, rank, sendbuf, sendsize, recvbuf, recvsize, datasize, st) ==
    CASE kind = "broadcast" ->
            BroadcastSendrecv(m, ps, rank = 0, sendbuf, sendsize, recvbuf, recvsize)
      [] kind = "scatter" ->
            ScatterSendrecv(m, ps, n, rank = 0, sendbuf, sendsize, recvbuf, recvsize,
                            datasize)
      [] kind = "gather" ->
            GatherSendrecv(m, ps, n, rank = 0, rank, sendbuf, sendsize, recvbuf,
                           recvsize, datasize, st)
      [] kind = "allgather" ->
            AllGatherSendrecv(m, ps, n, rank = 0, rank, sendbuf, sendsize, recvbuf,
                              recvsize, datasize, st)
      [] kind = "alltoall" ->
            AlltoallSendrecv(m, ps, n, rank = 0, rank, sendbuf, sendsize, recvbuf,
                             recvsize, datasize, st)
      [] OTHER -> BaseSendrecv(m, recvbuf)

---------------------------------------------------------------------------
(* Specification SpecEos: one collective of one of the five sendrecv       *)
(* strategies, with valid arguments and a total of one byte or more.       *)
(* Every participant either calls sendrecv or has closed before (the       *)
(* teardown of the collective); one connection may break.  obs tells what  *)
(* the last step's frame-receive met: eos, when a handle of the caller     *)
(* was read-closed by the framing helper during the call (the helper       *)
(* returned 0); the errno of a receive that failed.                        *)

EosKinds == {"broadcast", "scatter", "gather", "allgather", "alltoall"}

\* the valid arguments of rank p's call
EosSendSize(p) ==
    CASE cfg.kind \in {"broadcast", "scatter", "alltoall"} -> cfg.total
      [] OTHER -> MyChunk(p)

EosRecvSize(p) ==
    CASE cfg.kind = "scatter" -> MyChunk(p)
      [] cfg.kind = "alltoall" -> MyChunk(p) * cfg.n
      [] OTHER -> cfg.total

EosInit ==
    /\ cfg \in {[kind |-> k, n |-> c.n, ds |-> c.ds, total |-> c.total] :
                    k \in EosKinds,
                    c \in {d \in Collectives : d.n >= 2 /\ d.total > 0}}
    /\ hm = [x \in HandleIds({7}, cfg.n) |-> NewHandle]
    /\ parts = [p \in Ranks |-> Participants(7, p, cfg.n)]
    /\ pc = [p \in Ranks |-> "start"]
    /\ mem = [p \in Ranks |-> [rbuf |-> Fresh(EosRecvSize(p)), st |-> Start]]
    /\ obs = [op |-> "none", p |-> 0, r |-> 0, errno |-> "", eos |-> FALSE]

\* a handle of rank p was read-closed between m and m2
EosMet(p, m, m2) ==
    \E k \in 1..Len(parts[p]) : m2[parts[p][k]].closed_rd /\ ~m[parts[p][k]].closed_rd

\* a step of rank p's sendrecv has run: the call returned, or it waits in
\* a receive after it sent, copied or received something
EosStepped(p, res) ==
    /\ ~res.blk
    /\ hm' = res.hm
    /\ mem' = [mem EXCEPT ![p] = [rbuf |-> res.recvbuf,
                                  st |-> IF Returned(res) THEN Start ELSE res.st]]
    /\ pc' = [pc EXCEPT ![p] = IF Returned(res) THEN "done" ELSE "recv"]
    /\ obs' = [op |-> IF Returned(res) THEN "sendrecv" ELSE "sent", p |-> p,
               r |-> res.r, errno |-> res.errno, eos |-> EosMet(p, hm, res.hm)]
    /\ UNCHANGED <<cfg, parts>>

EosCall(p) ==
    /\ pc[p] = "start"
    /\ EosStepped(p,
          StrategySendrecv(cfg.kind, hm, parts[p], cfg.n, p,
              RankBuf(p, EosSendSize(p)), EosSendSize(p),
              mem[p].rbuf, EosRecvSize(p), cfg.ds, Start))

EosResume(p) ==
    /\ pc[p] = "recv"
    /\ EosStepped(p,
          StrategySendrecv(cfg.kind, hm, parts[p], cfg.n, p,
              RankBuf(p, EosSendSize(p)), EosSendSize(p),
              mem[p].rbuf, EosRecvSize(p), cfg.ds, mem[p].st))

\* the participant tears the collective down, before or after its call
EosClose(p) ==
    /\ pc[p] \in {"start", "done"}
    /\ hm' = StrategyClose(cfg.kind, hm, parts[p], p = 0)
    /\ pc' = [pc EXCEPT ![p] = "closed"]
    /\ obs' = [op |-> "close", p |-> p, r |-> 0, errno |-> "", eos |-> FALSE]
    /\ UNCHANGED <<cfg, parts, mem>>

\* one connection breaks: its reads find the end of the stream, a reset or
\* an I/O error once the frames that arrived are read
EosLinkBreak ==
    \E x \in DOMAIN hm, c \in {"eof", "reset", "fail"} :
        /\ \A y \in DOMAIN hm : hm[y].cond = "ok"
        /\ \E p \in Ranks : pc[p] \in {"start", "recv"}
        /\ hm' = [hm EXCEPT ![x].cond = c]
        /\ obs' = [op |-> "break", p |-> x[2], r |-> 0, errno |-> "", eos |-> FALSE]
        /\ UNCHANGED <<cfg, parts, pc, mem>>

EosNext ==
    \/ \E p \in Ranks : EosCall(p)
    \/ \E p \in Ranks : EosResume(p)
    \/ \E p \in Ranks : EosClose(p)
    \/ EosLinkBreak

SpecEos == EosInit /\ [][EosNext]_vars

(* C11: the end of the stream is reported as 0.  A sendrecv whose          *)
(* frame-receive met the end of the stream returned 0, and one whose       *)
(* frame-receive failed returned -1: for the non-root of Broadcast and     *)
(* Scatter, the root of Gather, and the root and the non-roots of          *)
(* AllGather and AllToAll.                                                 *)
C11_EosReportedAsZero ==
    obs.op = "sendrecv" =>
        /\ obs.eos => obs.r = 0
        /\ obs.errno \in {"EIO", "ENOMEM"} => obs.r = 0 - 1

\* a non-root of AllGather or AllToAll met the end of the stream after it
\* sent its share, and its call has returned
C11_Witness ==
    /\ obs.op = "sendrecv" /\ obs.eos /\ obs.p > 0
    /\ cfg.kind \in {"allgather", "alltoall"}
    /\ pc[obs.p] = "done" /\ hm[Hid(7, obs.p, 0)].closed_rd
    /\ MyChunk(obs.p) > 0

---------------------------------------------------------------------------
(* Specification SpecInvalid: one collective of any of the seven           *)
(* strategies; every participant makes one sendrecv, with valid arguments  *)
(* or with one of the claim's faults in them, or closes; probe, send and   *)
(* receive are tried on the strategies that do not support them.  obs      *)
(* tells the fault of the last call's arguments (bad) and whether the call *)
(* left every handle and the caller's recvbuf as they were (same).         *)

\* BroadcastGeneric::probe, send and receive, and those of Scatter, Gather,
\* AllGather and AllToAll: errno = EINVAL; return -1
InvalidOperation(m) == [blk |-> FALSE, r |-> 0 - 1, errno |-> "EINVAL", hm |-> m]

InvKinds == EosKinds \cup {"fanin", "fanout"}

\* the buffers sendrecv validates, per strategy and role
InvSendRequired(p) ==
    cfg.kind \in {"gather", "allgather", "alltoall"} \/ (cfg.kind = "scatter" /\ p = 0)

InvRecvRequired(p) ==
    cfg.kind \in {"scatter", "allgather", "alltoall"} \/ (cfg.kind = "gather" /\ p = 0)

InvValid(p) ==
    [sb |-> RankBuf(p, EosSendSize(p)), ss |-> EosSendSize(p),
     rb |-> Fresh(EosRecvSize(p)), rs |-> EosRecvSize(p),
     bad |-> IF cfg.kind \in EosKinds THEN "none" ELSE "unsupported"]

\* the arguments with a null buffer where one is required
InvNull(p) ==
    {[InvValid(p) EXCEPT !.sb = Null, !.bad = "null"] : x \in {1 : y \in {p} \cap {q \in Ranks : InvSendRequired(q)}}}
    \cup
    {[InvValid(p) EXCEPT !.rb = Null, !.bad = "null"] : x \in {1 : y \in {p} \cap {q \in Ranks : InvRecvRequired(q)}}}

\* the arguments with the partitioned size one byte more, no multiple of
\* datasize
InvIndivisible(p) ==
    IF cfg.ds = 1 THEN {}
    ELSE IF cfg.kind \in {"gather", "allgather"} THEN
        {[InvValid(p) EXCEPT !.rs = @ + 1, !.rb = Fresh(EosRecvSize(p) + 1),
                             !.bad = "indivisible"]}
    ELSE IF cfg.kind = "alltoall" \/ (cfg.kind = "scatter" /\ p = 0) THEN
        {[InvValid(p) EXCEPT !.ss = @ + 1, !.sb = RankBuf(p, EosSendSize(p) + 1),
                             !.bad = "indivisible"]}
    ELSE {}

\* the arguments with the caller's own buffer one byte short of its share
InvSmall(p) ==
    IF MyChunk(p) = 0 THEN {}
    ELSE IF cfg.kind \in {"gather", "allgather"} THEN
        {[InvValid(p) EXCEPT !.ss = @ - 1, !.sb = RankBuf(p, MyChunk(p) - 1),
                             !.bad = "small"]}
    ELSE IF cfg.kind = "alltoall" \/ (cfg.kind = "scatter" /\ p = 0) THEN
        {[InvValid(p) EXCEPT !.rs = @ - 1, !.rb = Fresh(EosRecvSize(p) - 1),
                             !.bad = "small"]}
    ELSE {}

InvArgs(p) == {InvValid(p)} \cup InvNull(p) \cup InvIndivisible(p) \cup InvSmall(p)

InvInit ==
    /\ cfg \in {[kind |-> k, n |-> n, ds |-> d, total |-> c * d] :
                    k \in InvKinds, n \in 2..InvMaxN, d \in 1..InvMaxDS,
                    c \in 1..InvMaxCount}
    /\ hm = [x \in HandleIds({8}, cfg.n) |-> NewHandle]
    /\ parts = [p \in Ranks |-> Participants(8, p, cfg.n)]
    /\ pc = [p \in Ranks |-> "start"]
    /\ mem = [p \in Ranks |-> [args |-> << >>, rbuf |-> << >>, st |-> Start]]
    /\ obs = [op |-> "none", p |-> 0, bad |-> "none", r |-> 0, errno |-> "",
              same |-> TRUE]

InvStepped(p, a, res) ==
    /\ ~res.blk
    /\ hm' = res.hm
    /\ mem' = [mem EXCEPT ![p] = [args |-> a, rbuf |-> res.recvbuf,
                                  st |-> IF Returned(res) THEN Start ELSE res.st]]
    /\ pc' = [pc EXCEPT ![p] = IF Returned(res) THEN "done" ELSE "recv"]
    /\ obs' = [op |-> "sendrecv", p |-> p, bad |-> a.bad, r |-> res.r,
               errno |-> res.errno, same |-> res.hm = hm /\ res.recvbuf = a.rb]
    /\ UNCHANGED <<cfg, parts>>

InvCall(p) ==
    \E a \in InvArgs(p) :
        /\ pc[p] = "start"
        /\ InvStepped(p, a,
              StrategySendrecv(cfg.kind, hm, parts[p], cfg.n, p, a.sb, a.ss, a.rb,
                               a.rs, cfg.ds, Start))

InvResume(p) ==
    /\ pc[p] = "recv"
    /\ InvStepped(p, mem[p].args,
          StrategySendrecv(cfg.kind, hm, parts[p], cfg.n, p, mem[p].args.sb,
                           mem[p].args.ss, mem[p].rbuf, mem[p].args.rs, cfg.ds,
                           mem[p].st))

\* probe, send or receive on a strategy that has sendrecv only
InvUnsupportedDone(p, op, res) ==
    /\ hm' = res.hm
    /\ obs' = [op |-> op, p |-> p, bad |-> "unsupported", r |-> res.r,
               errno |-> res.errno, same |-> res.hm = hm]
    /\ UNCHANGED <<cfg, parts, pc, mem>>

InvUnsupported(p) ==
    \E op \in {"probe", "send", "receive"} :
        /\ cfg.kind \in EosKinds
        /\ pc[p] # "closed"
        /\ InvUnsupportedDone(p, op, InvalidOperation(hm))

InvClose(p) ==
    /\ pc[p] \in {"start", "done"}
    /\ hm' = StrategyClose(cfg.kind, hm, parts[p], p = 0)
    /\ pc' = [pc EXCEPT ![p] = "closed"]
    /\ obs' = [op |-> "close", p |-> p, bad |-> "none", r |-> 0, errno |-> "",
               same |-> FALSE]
    /\ UNCHANGED <<cfg, parts, mem>>

InvNext ==
    \/ \E p \in Ranks : InvCall(p)
    \/ \E p \in Ranks : InvResume(p)
    \/ \E p \in Ranks : InvUnsupported(p)
    \/ \E p \in Ranks : InvClose(p)

SpecInvalid == InvInit /\ [][InvNext]_vars

(* C12: invalid use performs no I/O.  A call with one of the faults of     *)
(* invalid use (an operation the strategy does not support, a null         *)
(* required buffer, a size that is no multiple of datasize, an own buffer  *)
(* smaller than the caller's share) returned -1 with EINVAL or EFAULT, and *)
(* every call that returned so left every handle's queue, probed state and *)
(* close flags, and the caller's recvbuf, unchanged.                       *)
C12_InvalidUseNoIO ==
    /\ obs.bad # "none" => obs.r = 0 - 1 /\ obs.errno \in {"EINVAL", "EFAULT"}
    /\ (obs.r = 0 - 1 /\ obs.errno \in {"EINVAL", "EFAULT"}) => obs.same

\* the root of a Gather was rejected for its short sendbuf while the share
\* of a peer was waiting in its handle
C12_Witness ==
    /\ cfg.kind = "gather" /\ obs.op = "sendrecv" /\ obs.p = 0 /\ obs.bad = "small"
    /\ obs.r = 0 - 1 /\ obs.same
    /\ hm[Hid(8, 0, 1)].q # << >>

---------------------------------------------------------------------------
(* Specification SpecFailFast: the root of a Broadcast or a Scatter calls  *)
(* sendrecv up to MaxBcasts times while the writes of any of its handles   *)
(* may start to fail; the peers receive what arrives.                      *)

FfPeers == 1..cfg.n - 1

\* the frame a successful call of the root sends to peer i
FfFrame(i) ==
    IF cfg.kind = "broadcast" THEN RankBuf(0, cfg.total)
    ELSE Slice(RankBuf(0, cfg.total), MyDispl(i), MyChunk(i))

FfInit ==
    /\ cfg \in {[kind |-> k, n |-> c.n, ds |-> c.ds, total |-> c.total] :
                    k \in {"broadcast", "scatter"},
                    c \in {d \in Collectives : d.n >= 2}}
    /\ hm = [x \in HandleIds({9}, cfg.n) |-> NewHandle]
    /\ parts = [p \in Ranks |-> Participants(9, p, cfg.n)]
    /\ pc = [p \in Ranks |-> 0]
    /\ mem = [p \in Ranks |-> [rbuf |-> Fresh(IF p = 0 THEN EosRecvSize(0) ELSE 0)]]
    /\ obs = [op |-> "none", p |-> 0, r |-> 0, errno |-> ""]

FfStepped(p, res) ==
    /\ ~res.blk
    /\ hm' = res.hm
    /\ mem' = [mem EXCEPT ![p] = [rbuf |-> res.recvbuf]]
    /\ pc' = [pc EXCEPT ![p] = @ + 1]
    /\ obs' = [op |-> "sendrecv", p |-> p, r |-> res.r, errno |-> res.errno]
    /\ UNCHANGED <<cfg, parts>>

\* the root's sendrecv
FfRoot ==
    /\ pc[0] < MaxBcasts
    /\ FfStepped(0,
          StrategySendrecv(cfg.kind, hm, parts[0], cfg.n, 0,
              RankBuf(0, cfg.total), cfg.total, Fresh(EosRecvSize(0)),
              EosRecvSize(0), cfg.ds, Start))

\* a peer's sendrecv: it returns when a frame is there
FfPeer(p) ==
    /\ pc[p] < MaxBcasts
    /\ FfStepped(p,
          StrategySendrecv(cfg.kind, hm, parts[p], cfg.n, p,
              Null, 0, Fresh(EosRecvSize(p)), EosRecvSize(p), cfg.ds, Start))

\* the writes of the root's handle to peer p start to fail
FfBreak(p) ==
    /\ ~hm[Hid(9, 0, p)].wfail
    /\ hm' = [hm EXCEPT ![Hid(9, 0, p)].wfail = TRUE]
    /\ obs' = [op |-> "break", p |-> p, r |-> 0, errno |-> ""]
    /\ UNCHANGED <<cfg, parts, pc, mem>>

FfNext ==
    \/ FfRoot
    \/ \E p \in FfPeers : FfPeer(p)
    \/ \E p \in FfPeers : FfBreak(p)

SpecFailFast == FfInit /\ [][FfNext]_vars

\* the peers whose handle fails to write, in the state before the call
FfFailing == {p \in FfPeers : hm[Hid(9, 0, p)].wfail}

\* the first of them in participants order
FfFirst == CHOOSE k \in FfFailing : \A j \in FfFailing : k <= j

(* C13: fail-fast without rollback.  A sendrecv of the root of a Broadcast *)
(* or a Scatter that gets a send failure at peer k returns -1 with         *)
(* ECONNRESET; its step appended exactly one frame, the peer's own, to the *)
(* channel of every peer before k and left the channels of k and of every  *)
(* later peer, and all that was in any channel before, as they were.       *)
C13_FailFast ==
    [][(pc'[0] = pc[0] + 1 /\ FfFailing # {}) =>
          /\ obs'.r = 0 - 1 /\ obs'.errno = "ECONNRESET"
          /\ \A i \in FfPeers :
                hm'[Hid(9, i, 0)] =
                    IF i < FfFirst
                    THEN [hm[Hid(9, i, 0)] EXCEPT !.q = Append(@, FfFrame(i))]
                    ELSE hm[Hid(9, i, 0)]
          /\ \A i \in FfPeers : hm'[Hid(9, 0, i)] = hm[Hid(9, 0, i)]]_vars

\* the root's second call failed at the second peer: the first peer holds
\* the frames of both calls, the second peer the frame of the first only
C13_Witness ==
    /\ cfg.n >= 3 /\ cfg.total >= cfg.n * cfg.ds
    /\ obs.op = "sendrecv" /\ obs.p = 0 /\ obs.r = 0 - 1 /\ pc[0] = 2
    /\ ~hm[Hid(9, 0, 1)].wfail /\ hm[Hid(9, 0, 2)].wfail
    /\ hm[Hid(9, 1, 0)].q = <<FfFrame(1), FfFrame(1)>>
    /\ hm[Hid(9, 2, 0)].q = <<FfFrame(2)>>

---------------------------------------------------------------------------
(* Specification SpecClose: close of Broadcast, Scatter, FanOut, FanIn and *)
(* Gather, called by any participant, any number of times and with any     *)
(* arguments, on handles that carry traffic: either end of a channel sends *)
(* up to ClMaxSends frames in all, and the owners probe their handles.     *)
(* obs tells the last step: only a close sets obs.op to "close".           *)

ClMaxSends == 1

ClKinds == {"broadcast", "scatter", "fanout", "fanin", "gather"}

ClInit ==
    /\ cfg \in {[kind |-> k, n |-> n] : k \in ClKinds, n \in 2..MaxN}
    /\ hm = [x \in HandleIds({10}, cfg.n) |-> NewHandle]
    /\ parts = [p \in Ranks |-> Participants(10, p, cfg.n)]
    /\ pc = [sent |-> 0]
    /\ mem = << >>
    /\ obs = [op |-> "none", p |-> 0, wr |-> FALSE, rd |-> FALSE]

\* CollectiveImpl::close(close_wr, close_rd) by participant p
ClClose(p, wr, rd) ==
    /\ hm' = StrategyClose(cfg.kind, hm, parts[p], p = 0)
    /\ obs' = [op |-> "close", p |-> p, wr |-> wr, rd |-> rd]
    /\ UNCHANGED <<cfg, parts, pc, mem>>

\* the owner of handle x sends a frame of one byte on it
ClSend(x) ==
    /\ pc.sent < ClMaxSends
    /\ ~hm[x].closed_wr
    /\ hm' = HSend(hm, x, Payload(pc.sent, 1)).hm
    /\ pc' = [pc EXCEPT !.sent = @ + 1]
    /\ obs' = [op |-> "send", p |-> 0, wr |-> FALSE, rd |-> FALSE]
    /\ UNCHANGED <<cfg, parts, mem>>

\* the owner of handle x probes it through the framing helper
ClProbed(x, res) ==
    /\ hm' = res.hm
    /\ obs' = [op |-> "probe", p |-> 0, wr |-> FALSE, rd |-> FALSE]
    /\ UNCHANGED <<cfg, parts, pc, mem>>

ClProbe(x) == ClProbed(x, probeHandle(hm, x, FALSE, 0))

ClNext ==
    \/ \E p \in Ranks, wr \in BOOLEAN, rd \in BOOLEAN : ClClose(p, wr, rd)
    \/ \E x \in DOMAIN hm : ClSend(x)
    \/ \E x \in DOMAIN hm : ClProbe(x)

SpecClose == ClInit /\ [][ClNext]_vars

\* the handles close() of participant p write-closes, by the policy
ClPolicy(p) ==
    IF \/ cfg.kind \in {"broadcast", "scatter", "fanout"} /\ p = 0
       \/ cfg.kind = "fanin" /\ p # 0
       \/ cfg.kind = "gather"
    THEN {parts[p][k] : k \in 1..Len(parts[p])}
    ELSE {}

(* C15: close policy.  A close() of participant p, whatever its two        *)
(* arguments, write-closes exactly the handles of the policy (all of the   *)
(* root's for Broadcast, Scatter and FanOut, the non-root's one for FanIn, *)
(* all of the caller's for Gather; none otherwise): the end of stream goes *)
(* once to the other end of each; no handle is read-closed, no probed      *)
(* state and no other channel changes, and participants stays as it was.   *)
C15_ClosePolicy ==
    [][obs'.op = "close" =>
          /\ parts' = parts
          /\ \A x \in DOMAIN hm :
                hm'[x] =
                    IF x \in ClPolicy(obs'.p) THEN [hm[x] EXCEPT !.closed_wr = TRUE]
                    ELSE IF Opp(x) \in ClPolicy(obs'.p) /\ ~hm[Opp(x)].closed_wr
                    THEN [hm[x] EXCEPT !.q = Append(@, << >>)]
                    ELSE hm[x]
      ]_vars

\* the root of a Broadcast of three closed with (false, true): both its
\* handles are write-closed, neither is read-closed although one had met
\* nothing and the other holds a frame
C15_Witness ==
    /\ cfg.kind = "broadcast" /\ cfg.n = 3
    /\ obs.op = "close" /\ obs.p = 0 /\ ~obs.wr /\ obs.rd
    /\ hm[Hid(10, 0, 1)].closed_wr /\ hm[Hid(10, 0, 2)].closed_wr
    /\ ~hm[Hid(10, 0, 1)].closed_rd /\ ~hm[Hid(10, 0, 2)].closed_rd
    /\ hm[Hid(10, 0, 2)].q # << >>
    /\ Len(parts[0]) = 2

---------------------------------------------------------------------------
(* FanOut *)

\* participants.pop_back()
FanOutPopBack(ps) == SubSeq(ps, 1, Len(ps) - 1)

\* FanOutGeneric::probe, after res = h->probe(size, blocking) on
\* h = participants.at(0)
FanOutProbed(m, ps, h, res) ==
    IF res.blk THEN Blocked
    ELSE [blk |-> FALSE, r |-> res.r, size |-> res.size, errno |-> res.errno,
          ps |-> IF res.r > 0 /\ res.size = 0 THEN FanOutPopBack(ps) ELSE ps,
          hm |-> IF res.r <= 0 THEN res.hm
                 ELSE [(IF res.size = 0 THEN HClose(res.hm, h, TRUE, TRUE)
                        ELSE res.hm)
                       EXCEPT ![h].probed = TRUE, ![h].psize = res.size]]

\* FanOutGeneric::probe(size, blocking)
FanOutProbe(m, ps, blocking, size0, junk) ==
    IF ps = << >>
    THEN [blk |-> FALSE, r |-> 0 - 1, size |-> size0, errno |-> "ECONNRESET",
          ps |-> ps, hm |-> m]
    ELSE FanOutProbed(m, ps, ps[1], HProbe(m, ps[1], blocking, size0, junk))

\* ++current %= count
FanOutAdvance(current, count) == (current + 1) % count

\* FanOutGeneric::send, after res = h->send(buff, size)
FanOutSentAdvanceIfOk(current, count, sd) ==
    [thrown |-> FALSE, r |-> sd.r, hm |-> sd.hm,
     current |-> IF sd.r < 0 THEN current ELSE FanOutAdvance(current, count)]

FanOutSent(current, count, sd) ==
    [thrown |-> FALSE, r |-> sd.r, hm |-> sd.hm,
     current |-> FanOutAdvance(current, count)]

\* FanOutGeneric::send(buff, size): participants.at(current) throws
\* std::out_of_range when current is no index of participants
FanOutSend(m, ps, current, data) ==
    IF current >= Len(ps)
    THEN [thrown |-> TRUE, r |-> 0, hm |-> m, current |-> current]
    ELSE FanOutSent(current, Len(ps), HSend(m, ps[current + 1], data))

\* FanOutGeneric::receive, after res = h->receive(buff, size):
\* h->probed = {false, 0}; return res
FanOutReceived(h, rc) ==
    [thrown |-> FALSE, r |-> rc.r, data |-> rc.data,
     hm |-> [rc.hm EXCEPT ![h].probed = FALSE, ![h].psize = 0]]

\* FanOutGeneric::receive(buff, size)
FanOutReceive(m, ps, cap) ==
    IF ps = << >> THEN [thrown |-> TRUE, r |-> 0, data |-> << >>, hm |-> m]
    ELSE FanOutReceived(ps[1], HReceive(m, ps[1], cap))

---------------------------------------------------------------------------
(* Specification SpecFanOut: the root of a FanOut sends up to FoMaxSends   *)
(* messages while the writes of its handles may start to fail; every peer  *)
(* loops probe / receive.  mem[0] holds the root's cursor and the log of   *)
(* its sends (the handle chosen, the result, the message).                 *)

FoMaxSends == 3

FoPeers == 1..cfg.n - 1

FoInit ==
    /\ cfg \in {[n |-> n] : n \in 2..MaxN}
    /\ hm = [x \in HandleIds({11}, cfg.n) |-> NewHandle]
    /\ parts = [p \in Ranks |-> Participants(11, p, cfg.n)]
    /\ pc = [p \in Ranks |-> IF p = 0 THEN "send" ELSE "probe"]
    /\ mem = [p \in Ranks |->
                IF p = 0 THEN [current |-> 0, log |-> << >>]
                ELSE [size |-> 0, log |-> << >>]]
    /\ obs = [op |-> "none", p |-> 0, r |-> 0]

FoSent(data, res) ==
    /\ ~res.thrown
    /\ hm' = res.hm
    /\ mem' = [mem EXCEPT ![0] =
                 [current |-> res.current,
                  log |-> Append(mem[0].log,
                                 [to |-> parts[0][mem[0].current + 1], r |-> res.r,
                                  data |-> data])]]
    /\ obs' = [op |-> "send", p |-> 0, r |-> res.r]
    /\ UNCHANGED <<cfg, parts, pc>>

\* the root's send of its next message
FoSend ==
    \E len \in 1..MaxMsg :
        /\ Len(mem[0].log) < FoMaxSends
        /\ FoSent(Payload(Len(mem[0].log) + 1, len),
                  FanOutSend(hm, parts[0], mem[0].current,
                             Payload(Len(mem[0].log) + 1, len)))

\* the writes of the root's handle to peer p start to fail
FoBreak(p) ==
    /\ ~hm[Hid(11, 0, p)].wfail
    /\ hm' = [hm EXCEPT ![Hid(11, 0, p)].wfail = TRUE]
    /\ obs' = [op |-> "break", p |-> p, r |-> 0]
    /\ UNCHANGED <<cfg, parts, pc, mem>>

FoProbed(p, res) ==
    /\ ~res.blk
    /\ hm' = res.hm
    /\ parts' = [parts EXCEPT ![p] = res.ps]
    /\ pc' = [pc EXCEPT ![p] = IF res.r > 0 /\ res.size > 0 THEN "receive"
                               ELSE IF res.r > 0 THEN "eos" ELSE "probe"]
    /\ mem' = [mem EXCEPT ![p].size = IF res.r > 0 THEN res.size ELSE @]
    /\ obs' = [op |-> "probe", p |-> p, r |-> res.r]
    /\ UNCHANGED cfg

FoProbe(p) ==
    /\ pc[p] = "probe"
    /\ FoProbed(p, FanOutProbe(hm, parts[p], FALSE, mem[p].size, 0))

FoReceived(p, res) ==
    /\ ~res.thrown
    /\ hm' = res.hm
    /\ pc' = [pc EXCEPT ![p] = "probe"]
    /\ mem' = [mem EXCEPT ![p].log = Append(@, res.data)]
    /\ obs' = [op |-> "receive", p |-> p, r |-> res.r]
    /\ UNCHANGED <<cfg, parts>>

FoReceive(p) ==
    /\ pc[p] = "receive"
    /\ FoReceived(p, FanOutReceive(hm, parts[p], mem[p].size))

FoNext ==
    \/ FoSend
    \/ \E p \in FoPeers : FoBreak(p)
    \/ \E p \in FoPeers : FoProbe(p)
    \/ \E p \in FoPeers : FoReceive(p)

SpecFanOut == FoInit /\ [][FoNext]_vars

\* the handle of the root to the peer at index k mod m of participants
FoTarget(k) == Hid(11, 0, (k % (cfg.n - 1)) + 1)

(* C16: FanOut round-robin.  With m = n - 1 peers, the root's k-th send    *)
(* (k from 0) goes to participants[k mod m]: it appends the message to     *)
(* that peer's channel, or fails and changes no channel; either way the    *)
(* cursor becomes (k + 1) mod m, within [0, m); and any m consecutive      *)
(* sends chose every peer once.                                            *)
C16_FanOutRoundRobin ==
    [][Len(mem'[0].log) = Len(mem[0].log) + 1 =>
          LET k == Len(mem[0].log)
              e == mem'[0].log[k + 1]
          IN  /\ e.to = FoTarget(k)
              /\ mem'[0].current = (k + 1) % (cfg.n - 1)
              /\ mem'[0].current \in 0..cfg.n - 2
              /\ IF hm[FoTarget(k)].wfail
                 THEN e.r = 0 - 1 /\ hm' = hm
                 ELSE /\ e.r = Len(e.data)
                      /\ hm' = [hm EXCEPT ![Opp(FoTarget(k))].q = Append(@, e.data)]
              /\ \A s \in 1..k + 2 - (cfg.n - 1) :
                    {mem'[0].log[j].to : j \in s..s + cfg.n - 2} =
                        {Hid(11, 0, p) : p \in FoPeers}
      ]_vars

\* with two peers, the second send failed and the third went to the first
\* peer again
C16_Witness ==
    /\ cfg.n = 3 /\ Len(mem[0].log) = 3
    /\ mem[0].log[1].to = Hid(11, 0, 1) /\ mem[0].log[1].r > 0
    /\ mem[0].log[2].to = Hid(11, 0, 2) /\ mem[0].log[2].r = 0 - 1
    /\ mem[0].log[3].to = Hid(11, 0, 1) /\ mem[0].log[3].r > 0
    /\ mem[0].current = 1
    /\ mem[1].log = <<mem[0].log[1].data>>

---------------------------------------------------------------------------
(* Specification SpecFanInStream: the peers of a FanIn keep sending, each  *)
(* with up to FsMaxPending messages waiting at the root; the root loops    *)
(* probe / receive.  Nobody closes.  The root and every peer keep running  *)
(* (weak fairness).                                                        *)

FsMaxPending == 2

FsPeers == 1..cfg.n - 1

FsInit ==
    /\ cfg \in {[n |-> n] : n \in 2..MaxN}
    /\ hm = [x \in HandleIds({12}, cfg.n) |-> NewHandle]
    /\ parts = [p \in Ranks |-> Participants(12, p, cfg.n)]
    /\ pc = [p \in Ranks |-> IF p = 0 THEN "probe" ELSE "send"]
    /\ mem = [p \in Ranks |-> [size |-> 0, idx |-> 0 - 1]]
    /\ obs = [op |-> "none", r |-> 0, size |-> 0, last |-> << >>]

\* nobody closes, so that no probe removes a handle, and errno is no part
\* of this specification's state: a blocking probe that goes on polling
\* has changed nothing of it
FsProbed(res) ==
    /\ ~res.blk /\ ~res.wait
    /\ hm' = res.hm
    /\ parts' = [parts EXCEPT ![0] = res.ps]
    /\ mem' = [mem EXCEPT ![0] = [size |-> res.size, idx |-> res.idx]]
    /\ pc' = [pc EXCEPT ![0] = IF res.r > 0 /\ res.size > 0 THEN "receive"
                               ELSE "probe"]
    /\ obs' = [op |-> "probe", r |-> res.r, size |-> res.size, last |-> res.last]
    /\ UNCHANGED cfg

FsProbe ==
    \E blocking \in BOOLEAN :
        /\ pc[0] = "probe"
        /\ FsProbed(FanInProbe(hm, parts[0], blocking, mem[0].size, mem[0].idx, 0))

FsReceived(res) ==
    /\ ~res.blk
    /\ hm' = res.hm
    /\ mem' = [mem EXCEPT ![0].idx = res.idx]
    /\ pc' = [pc EXCEPT ![0] = "probe"]
    /\ obs' = [op |-> "receive", r |-> res.r, size |-> mem[0].size,
               last |-> parts[0][mem[0].idx + 1]]
    /\ UNCHANGED <<cfg, parts>>

FsReceive ==
    /\ pc[0] = "receive"
    /\ FsReceived(FanInReceive(hm, parts[0], mem[0].idx, mem[0].size))

\* peer p sends its next message
FsPeerSend(p) ==
    \E len \in 1..MaxMsg :
        /\ Len(hm[Hid(12, 0, p)].q) < FsMaxPending
        /\ hm' = FanInSend(hm, parts[p], Payload(p, len)).hm
        /\ UNCHANGED <<cfg, parts, pc, mem, obs>>

FsRoot == FsProbe \/ FsReceive

FsNext ==
    \/ FsProbe
    \/ FsReceive
    \/ \E p \in FsPeers : FsPeerSend(p)

SpecFanInStream ==
    /\ FsInit /\ [][FsNext]_vars
    /\ WF_vars(FsRoot)
    /\ \A p \in 1..MaxN - 1 : WF_vars(p \in FsPeers /\ FsPeerSend(p))

(* C18: FanIn cursor fairness.  With the root looping probe / receive, a   *)
(* peer whose message is pending is eventually selected: the root          *)
(* receives from its handle, also when lower-indexed peers have a message  *)
(* pending at every probe.                                                 *)
C18_FanInNoStarvation ==
    \A p \in 1..MaxN - 1 :
        (p \in FsPeers /\ hm[Hid(12, 0, p)].q # << >>)
            ~> (obs.op = "receive" /\ obs.last = Hid(12, 0, p))

\* the root has just received from the first peer, whose next message is
\* pending again, while the message of the second peer is still waiting
C18_Witness ==
    /\ cfg.n = 3 /\ pc[0] = "probe"
    /\ obs.op = "receive" /\ obs.last = Hid(12, 0, 1)
    /\ hm[Hid(12, 0, 1)].q # << >> /\ hm[Hid(12, 0, 2)].q # << >>
    /\ ~hm[Hid(12, 0, 2)].probed

---------------------------------------------------------------------------
(* Specification SpecTeardown: the root of a Broadcast or a Scatter        *)
(* (datasize 1) calls sendrecv with up to MaxBcasts buffers of 0 to MaxMsg *)
(* bytes and then close(); every non-root calls sendrecv again and again   *)
(* with a recvbuf of MaxMsg bytes, up to two calls more than the root      *)
(* made.  mem[0].sent is the buffers of the root's calls, mem[p].rets the  *)
(* results of peer p's calls.                                              *)

TdPeers == 1..cfg.n - 1

\* the frame of peer p in the root's call with buffer B
TdFrame(p, B) ==
    IF cfg.kind = "broadcast" THEN B
    ELSE Slice(B, Displ(p, Len(B), 1, cfg.n), Chunk(p, Len(B), 1, cfg.n))

TdInit ==
    /\ cfg \in {[kind |-> k, n |-> n] : k \in {"broadcast", "scatter"}, n \in 2..MaxN}
    /\ hm = [x \in HandleIds({13}, cfg.n) |-> NewHandle]
    /\ parts = [p \in Ranks |-> Participants(13, p, cfg.n)]
    /\ pc = [p \in Ranks |-> "run"]
    /\ mem = [p \in Ranks |-> IF p = 0 THEN [sent |-> << >>] ELSE [rets |-> << >>]]
    /\ obs = [op |-> "none", p |-> 0, r |-> 0]

TdRootDone(B, res) ==
    /\ res.r >= 0
    /\ hm' = res.hm
    /\ mem' = [mem EXCEPT ![0].sent = Append(@, B)]
    /\ obs' = [op |-> "sendrecv", p |-> 0, r |-> res.r]
    /\ UNCHANGED <<cfg, parts, pc>>

\* the root's sendrecv with its next buffer
TdRoot ==
    \E len \in 0..MaxMsg :
        /\ pc[0] = "run"
        /\ Len(mem[0].sent) < MaxBcasts
        /\ TdRootDone(Payload(Len(mem[0].sent) + 1, len),
              StrategySendrecv(cfg.kind, hm, parts[0], cfg.n, 0,
                  Payload(Len(mem[0].sent) + 1, len), len, Fresh(MaxMsg), MaxMsg, 1,
                  Start))

\* the root's close()
TdClose ==
    /\ pc[0] = "run"
    /\ hm' = StrategyClose(cfg.kind, hm, parts[0], TRUE)
    /\ pc' = [pc EXCEPT ![0] = "closed"]
    /\ obs' = [op |-> "close", p |-> 0, r |-> 0]
    /\ UNCHANGED <<cfg, parts, mem>>

TdPeerDone(p, res) ==
    /\ ~res.blk
    /\ hm' = res.hm
    /\ mem' = [mem EXCEPT ![p].rets = Append(@, [r |-> res.r, buf |-> res.recvbuf])]
    /\ obs' = [op |-> "sendrecv", p |-> p, r |-> res.r]
    /\ UNCHANGED <<cfg, parts, pc>>

\* a non-root's sendrecv
TdPeer(p) ==
    /\ Len(mem[p].rets) < MaxBcasts + 2
    /\ TdPeerDone(p,
          StrategySendrecv(cfg.kind, hm, parts[p], cfg.n, p, Null, 0,
                           Fresh(MaxMsg), MaxMsg, 1, Start))

TdNext ==
    \/ TdRoot
    \/ TdClose
    \/ \E p \in TdPeers : TdPeer(p)

SpecTeardown == TdInit /\ [][TdNext]_vars

(* C19: teardown reaches the peers.  The k-th sendrecv of a non-root       *)
(* returns the k-th frame the root sent it (its length, its bytes in       *)
(* recvbuf), for every frame the root sent before its close(); the calls   *)
(* after those return only once the root has closed, they return 0, and    *)
(* the non-root's handle is then read-closed and write-closed.             *)
C19_TeardownReachesPeers ==
    \A p \in TdPeers : \A k \in 1..Len(mem[p].rets) :
        IF k <= Len(mem[0].sent)
        THEN /\ mem[p].rets[k].r = Len(TdFrame(p, mem[0].sent[k]))
             /\ Slice(mem[p].rets[k].buf, 0, mem[p].rets[k].r) =
                    TdFrame(p, mem[0].sent[k])
        ELSE /\ pc[0] = "closed"
             /\ mem[p].rets[k].r = 0
             /\ hm[Hid(13, p, 0)].closed_rd /\ hm[Hid(13, p, 0)].closed_wr

\* a non-root met the end of the stream in its first sendrecv, on the
\* empty frame of the root's first call; the root then sent a frame of
\* MaxMsg bytes and closed, and the non-root's second sendrecv returned 0
C19_Witness ==
    /\ pc[0] = "closed" /\ Len(mem[0].sent) = 2
    /\ TdFrame(1, mem[0].sent[1]) = << >> /\ Len(TdFrame(1, mem[0].sent[2])) > 0
    /\ Len(mem[1].rets) >= 2
    /\ mem[1].rets[1].r = 0 /\ mem[1].rets[2].r = 0
    /\ hm[Hid(13, 1, 0)].closed_rd /\ hm[Hid(13, 1, 0)].closed_wr

---------------------------------------------------------------------------
(* Specification SpecFanOutProbe: a FanOut in which every participant, the *)
(* root too, may send up to FpMaxSends messages of 0 to MaxMsg bytes, may  *)
(* close, and loops probe / receive on its own participants.  obs tells    *)
(* the last call and, for a probe, participants as it was before it.       *)

FpMaxSends == 1

FpInit ==
    /\ cfg \in {[n |-> n] : n \in 2..MaxN}
    /\ hm = [x \in HandleIds({14}, cfg.n) |-> NewHandle]
    /\ parts = [p \in Ranks |-> Participants(14, p, cfg.n)]
    /\ pc = [p \in Ranks |-> "probe"]
    /\ mem = [p \in Ranks |-> [current |-> 0, sent |-> 0, size |-> 0, closed |-> FALSE]]
    /\ obs = [op |-> "none", p |-> 0, r |-> 0, size |-> 0, errno |-> "",
              before |-> << >>, thrown |-> FALSE]

FpSent(p, res) ==
    /\ hm' = res.hm
    /\ mem' = [mem EXCEPT ![p].current = res.current, ![p].sent = @ + 1]
    /\ obs' = [op |-> "send", p |-> p, r |-> res.r, size |-> 0, errno |-> "",
               before |-> parts[p], thrown |-> res.thrown]
    /\ UNCHANGED <<cfg, parts, pc>>

FpSend(p) ==
    \E len \in 0..MaxMsg :
        /\ mem[p].sent < FpMaxSends
        /\ FpSent(p, FanOutSend(hm, parts[p], mem[p].current, Payload(p, len)))

FpProbed(p, res) ==
    /\ ~res.blk
    /\ hm' = res.hm
    /\ parts' = [parts EXCEPT ![p] = res.ps]
    /\ pc' = [pc EXCEPT ![p] = IF res.r > 0 /\ res.size > 0 THEN "receive"
                               ELSE "probe"]
    /\ mem' = [mem EXCEPT ![p].size = res.size]
    /\ obs' = [op |-> "probe", p |-> p, r |-> res.r, size |-> res.size,
               errno |-> res.errno, before |-> parts[p], thrown |-> FALSE]
    /\ UNCHANGED cfg

FpProbe(p) ==
    /\ pc[p] = "probe"
    /\ FpProbed(p, FanOutProbe(hm, parts[p], FALSE, mem[p].size, 0))

FpReceived(p, res) ==
    /\ hm' = res.hm
    /\ pc' = [pc EXCEPT ![p] = "probe"]
    /\ obs' = [op |-> "receive", p |-> p, r |-> res.r, size |-> 0, errno |-> "",
               before |-> parts[p], thrown |-> res.thrown]
    /\ UNCHANGED <<cfg, parts, mem>>

FpReceive(p) ==
    /\ pc[p] = "receive"
    /\ FpReceived(p, FanOutReceive(hm, parts[p], mem[p].size))

FpClose(p) ==
    /\ ~mem[p].closed
    /\ hm' = FanOutClose(hm, parts[p], p = 0)
    /\ mem' = [mem EXCEPT ![p].closed = TRUE]
    /\ obs' = [op |-> "close", p |-> p, r |-> 0, size |-> 0, errno |-> "",
               before |-> parts[p], thrown |-> FALSE]
    /\ UNCHANGED <<cfg, parts, pc>>

FpNext ==
    \/ \E p \in Ranks : FpSend(p)
    \/ \E p \in Ranks : FpProbe(p)
    \/ \E p \in Ranks : FpReceive(p)
    \/ \E p \in Ranks : FpClose(p)

SpecFanOutProbe == FpInit /\ [][FpNext]_vars

(* C20: FanOut probe removes the handle that reached the end of stream.    *)
(* After a probe that saw size 0 on participants[0], that handle is        *)
(* read-closed and write-closed and participants is what it was without    *)
(* its first handle, every other handle in place; and a probe on an empty  *)
(* participants returns -1 with ECONNRESET.                                *)
C20_FanOutProbeRemovesEos ==
    obs.op = "probe" =>
        /\ (obs.r > 0 /\ obs.size = 0) =>
              /\ hm[obs.before[1]].closed_rd /\ hm[obs.before[1]].closed_wr
              /\ parts[obs.p] = Tail(obs.before)
        /\ obs.before = << >> => obs.r = 0 - 1 /\ obs.errno = "ECONNRESET"

\* the root, with two handles, saw the end of stream on the first: the
\* first is closed and still in participants, the second is gone
C20_Witness ==
    /\ obs.op = "probe" /\ obs.p = 0 /\ obs.r > 0 /\ obs.size = 0
    /\ Len(obs.before) = 2
    /\ parts[0] = <<obs.before[1]>>
    /\ hm[obs.before[1]].closed_rd /\ ~hm[obs.before[2]].closed_rd

---------------------------------------------------------------------------
(* Specification SpecFanInAny: the root of a FanIn calls probe, blocking   *)
(* or not, at any time, also again before the receive of the message a     *)
(* probe found; it calls receive only with a message found by a probe and  *)
(* not received yet, with the size that probe reported.  Every peer sends  *)
(* up to FaMaxSends messages and closes.  mem[0].hit is the handle whose   *)
(* message the last successful probe reported and mem[0].cap that size     *)
(* (what the caller knows); mem[0].size and mem[0].idx are the caller's    *)
(* size variable and probed_idx.  A probe that reaches a handle whose      *)
(* header is consumed and payload unread reads payload bytes for a header: *)
(* the size it makes of them is any of 0..MaxMsg.  A blocking probe that   *)
(* has found no message goes on polling (pc "polling") until it returns.   *)

FaMaxSends == 1

\* participants.at(probed_idx) throws std::out_of_range when probed_idx is
\* no index of participants; -1 converts to the largest size_t
FanInAtThrows(ps, idx) == idx < 0 \/ idx >= Len(ps)

FaPeers == 1..cfg.n - 1

FaInit ==
    /\ cfg \in {[n |-> n] : n \in 2..MaxN}
    /\ hm = [x \in HandleIds({15}, cfg.n) |-> NewHandle]
    /\ parts = [p \in Ranks |-> Participants(15, p, cfg.n)]
    /\ pc = [p \in Ranks |-> IF p = 0 THEN "root" ELSE "send"]
    /\ mem = [p \in Ranks |->
                 IF p = 0 THEN [size |-> 0, idx |-> 0 - 1, hit |-> << >>, cap |-> 0,
                                errno |-> "", last |-> << >>]
                 ELSE [sent |-> 0]]
    /\ obs = [op |-> "none", r |-> 0, thrown |-> FALSE, from |-> << >>]

\* the root's probe has returned, or goes on polling; a result > 0 with a
\* size > 0 is a message
FaProbed(res) ==
    /\ ~res.blk
    /\ hm' = res.hm
    /\ parts' = [parts EXCEPT ![0] = res.ps]
    /\ mem' = [mem EXCEPT ![0].size = res.size, ![0].idx = res.idx,
                          ![0].errno = res.errno, ![0].last = res.last,
                          ![0].hit = IF res.r > 0 /\ res.size > 0 THEN res.last ELSE @,
                          ![0].cap = IF res.r > 0 /\ res.size > 0 THEN res.size ELSE @]
    /\ pc' = [pc EXCEPT ![0] = IF res.wait THEN "polling" ELSE "root"]
    /\ obs' = [op |-> IF res.wait THEN "polling" ELSE "probe", r |-> res.r,
               thrown |-> FALSE, from |-> << >>]
    /\ UNCHANGED cfg

FaProbe ==
    \E blocking \in BOOLEAN, junk \in 0..MaxMsg :
        /\ pc[0] = "root"
        /\ FaProbed(FanInProbe(hm, parts[0], blocking, mem[0].size, mem[0].idx, junk))

\* the root's blocking probe, polling, gets on
FaPoll ==
    \E junk \in 0..MaxMsg :
        /\ pc[0] = "polling"
        /\ FaProbed(FanInPoll(hm, parts[0], mem[0].size, mem[0].errno, mem[0].idx,
                              mem[0].last, junk))

\* the root's receive has returned, from the handle at probed_idx
FaReceived(res) ==
    /\ ~res.blk
    /\ hm' = res.hm
    /\ mem' = [mem EXCEPT ![0].idx = res.idx,
                          ![0].hit = IF res.r > 0 THEN << >> ELSE @]
    /\ obs' = [op |-> "receive", r |-> res.r, thrown |-> FALSE,
               from |-> parts[0][mem[0].idx + 1]]
    /\ UNCHANGED <<cfg, parts, pc>>

\* participants.at(probed_idx) threw: nothing changed
FaThrown ==
    /\ obs' = [op |-> "receive", r |-> 0, thrown |-> TRUE, from |-> << >>]
    /\ UNCHANGED <<cfg, hm, parts, pc, mem>>

FaReceive ==
    /\ pc[0] = "root"
    /\ mem[0].hit # << >>
    /\ IF FanInAtThrows(parts[0], mem[0].idx) THEN FaThrown
       ELSE FaReceived(FanInReceive(hm, parts[0], mem[0].idx, mem[0].cap))

FaPeerSend(p) ==
    \E len \in 1..MaxMsg :
        /\ pc[p] = "send" /\ mem[p].sent < FaMaxSends
        /\ hm' = FanInSend(hm, parts[p], Payload(p, len)).hm
        /\ mem' = [mem EXCEPT ![p].sent = @ + 1]
        /\ UNCHANGED <<cfg, parts, pc, obs>>

FaPeerClose(p) ==
    /\ pc[p] = "send"
    /\ hm' = FanInClose(hm, parts[p], FALSE)
    /\ pc' = [pc EXCEPT ![p] = "done"]
    /\ UNCHANGED <<cfg, parts, mem, obs>>

FaNext ==
    \/ FaProbe
    \/ FaPoll
    \/ FaReceive
    \/ \E p \in FaPeers : FaPeerSend(p)
    \/ \E p \in FaPeers : FaPeerClose(p)

SpecFanInAny == FaInit /\ [][FaNext]_vars

(* C23: the FanIn probed index stays valid.  In every state reached by     *)
(* probe and receive calls of the root (a probe may be repeated before the *)
(* receive, handles may be removed for their end of stream in between), a  *)
(* probed_idx other than -1 is an index of participants and the handle at  *)
(* that index is the one whose message size the last successful probe      *)
(* reported; with such a message not yet received probed_idx is not -1,    *)
(* and no receive throws for its index or reads from another handle.       *)
C23_FanInProbedIdxValid ==
    /\ mem[0].idx # 0 - 1 =>
          /\ ~FanInAtThrows(parts[0], mem[0].idx)
          /\ parts[0][mem[0].idx + 1] = mem[0].hit
    /\ mem[0].hit # << >> => mem[0].idx # 0 - 1
    /\ ~obs.thrown

\* a receive returned the message of the second peer's handle, which the
\* last probe had reported, in a group of three
C23_Witness ==
    /\ cfg.n = 3
    /\ obs.op = "receive" /\ obs.r = MaxMsg /\ obs.from = Hid(15, 0, 2)
    /\ mem[0].idx = 0 - 1 /\ mem[0].hit = << >>
    /\ Len(parts[0]) = 2

---------------------------------------------------------------------------
(* Specification SpecZeroShare: a Broadcast, a Scatter or a Gather         *)
(* (datasize 1) in which every participant calls sendrecv ZsMaxCalls       *)
(* times and nobody closes; the k-th call of all participants is for the   *)
(* buffer ZsBuf(k) of cfg.totals[k] bytes, 0 to ZsMaxCount: the broadcast  *)
(* root sends it whole, the scatter root its shares, and every gather      *)
(* participant contributes its share of it.  mem[p].rets is the results    *)
(* of p's calls.                                                           *)

ZsMaxCalls == 2
ZsMaxCount == 3

ZsKinds == {"broadcast", "scatter", "gather"}

\* the buffer of the k-th call and rank p's share of it
ZsBuf(k) == Payload(k, cfg.totals[k])

ZsShare(p, k) ==
    IF cfg.kind = "broadcast" THEN ZsBuf(k)
    ELSE Slice(ZsBuf(k), Displ(p, cfg.totals[k], 1, cfg.n),
               Chunk(p, cfg.totals[k], 1, cfg.n))

\* the participant whose sendrecv receives: the non-roots of a Broadcast
\* and of a Scatter, the root of a Gather
ZsReceiver(p) == IF cfg.kind = "gather" THEN p = 0 ELSE p # 0

\* the arguments of the k-th sendrecv of rank p
ZsArgs(p, k) ==
    IF cfg.kind = "gather" THEN
        [sendbuf |-> ZsShare(p, k), sendsize |-> Len(ZsShare(p, k)),
         recvbuf |-> IF p = 0 THEN Fresh(cfg.totals[k]) ELSE Null,
         recvsize |-> cfg.totals[k]]
    ELSE
        [sendbuf |-> IF p = 0 THEN ZsBuf(k) ELSE Null,
         sendsize |-> IF p = 0 THEN cfg.totals[k] ELSE 0,
         recvbuf |-> Fresh(ZsMaxCount), recvsize |-> ZsMaxCount]

ZsInit ==
    /\ cfg \in {[kind |-> kd, n |-> n, totals |-> t] :
                    kd \in ZsKinds, n \in 2..MaxN,
                    t \in [1..ZsMaxCalls -> 0..ZsMaxCount]}
    /\ hm = [x \in HandleIds({16}, cfg.n) |-> NewHandle]
    /\ parts = [p \in Ranks |-> Participants(16, p, cfg.n)]
    /\ pc = [p \in Ranks |-> "run"]
    /\ mem = [p \in Ranks |-> [rets |-> << >>, rbuf |-> << >>, st |-> Start]]
    /\ obs = [op |-> "none", p |-> 0, r |-> 0]

\* a step of rank p's sendrecv has run: the call returned and its result
\* is appended, or the root of a Gather waits in its loop of receives
ZsStepped(p, res) ==
    /\ ~res.blk
    /\ hm' = res.hm
    /\ mem' = [mem EXCEPT ![p] =
                  IF Returned(res)
                  THEN [rets |-> Append(mem[p].rets, [r |-> res.r, buf |-> res.recvbuf]),
                        rbuf |-> << >>, st |-> Start]
                  ELSE [rets |-> mem[p].rets, rbuf |-> res.recvbuf, st |-> res.st]]
    /\ pc' = [pc EXCEPT ![p] = IF Returned(res) THEN "run" ELSE "recv"]
    /\ obs' = [op |-> IF Returned(res) THEN "sendrecv" ELSE "waiting", p |-> p,
               r |-> res.r]
    /\ UNCHANGED <<cfg, parts>>

ZsSendrecv(p, a, recvbuf, st) ==
    ZsStepped(p, StrategySendrecv(cfg.kind, hm, parts[p], cfg.n, p, a.sendbuf,
                                  a.sendsize, recvbuf, a.recvsize, 1, st))

\* the next sendrecv of rank p
ZsCall(p) ==
    /\ pc[p] = "run"
    /\ Len(mem[p].rets) < ZsMaxCalls
    /\ ZsSendrecv(p, ZsArgs(p, Len(mem[p].rets) + 1),
                  ZsArgs(p, Len(mem[p].rets) + 1).recvbuf, Start)

\* the sendrecv of rank p goes on where it waited
ZsResume(p) ==
    /\ pc[p] = "recv"
    /\ ZsSendrecv(p, ZsArgs(p, Len(mem[p].rets) + 1), mem[p].rbuf, mem[p].st)

ZsNext ==
    \/ \E p \in Ranks : ZsCall(p)
    \/ \E p \in Ranks : ZsResume(p)

SpecZeroShare == ZsInit /\ [][ZsNext]_vars

\* what the k-th sendrecv of a receiver delivers
ZsExpected(p, k) == IF cfg.kind = "gather" THEN ZsBuf(k) ELSE ZsShare(p, k)

(* C24: a zero-byte share is not an end of stream.  While nobody has       *)
(* closed, no sendrecv read-closes a handle, also after a Scatter or a     *)
(* Gather in which the share of some rank is 0 bytes or a Broadcast with   *)
(* sendsize 0; and every sendrecv with a positive share is delivered:      *)
(* the receiver's call returns the length of its share (the root of a      *)
(* Gather: of its own share) and leaves the bytes in recvbuf, whatever     *)
(* the shares of the calls before it were.                                 *)
C24_ZeroShareNotEos ==
    /\ \A x \in DOMAIN hm : ~hm[x].closed_rd
    /\ \A p \in Ranks : \A k \in 1..Len(mem[p].rets) :
          (ZsReceiver(p) /\ Len(ZsShare(p, k)) > 0) =>
              /\ mem[p].rets[k].r = Len(ZsShare(p, k))
              /\ Slice(mem[p].rets[k].buf, 0, Len(ZsExpected(p, k))) = ZsExpected(p, k)

\* a Scatter of 2 bytes and then of 3 bytes over three participants: the
\* last rank, whose first share was empty, has made both calls; both
\* returned 0 and its handle is read-closed, with the frame of its second
\* share left unread
C24_Witness ==
    /\ cfg.kind = "scatter" /\ cfg.n = 3
    /\ cfg.totals[1] = 2 /\ cfg.totals[2] = 3
    /\ Len(mem[0].rets) = 2 /\ Len(mem[2].rets) = 2
    /\ Len(ZsShare(2, 1)) = 0 /\ Len(ZsShare(2, 2)) = 1
    /\ mem[2].rets[1].r = 0 /\ mem[2].rets[2].r = 0
    /\ hm[Hid(16, 2, 0)].closed_rd /\ ~hm[Hid(16, 0, 2)].closed_wr
    /\ hm[Hid(16, 2, 0)].q = <<ZsShare(2, 2)>>

=============================================================================
